---- MODULE Spec2Model ----
(***************************************************************************)
(* A state-machine model of macmon's native telemetry core:                *)
(*   - the IOReport sampling engine (src/src/io_report.rs), with every     *)
(*     CoreFoundation handle it creates and releases, its constructor and  *)
(*     the iterator over the channels of one delta sample,                 *)
(*   - the SMC client (src/src/smc.rs), with its key-metadata cache and    *)
(*     the requests it sends to the kernel,                                *)
(*   - the HID temperature scanner (src/src/io_hid.rs),                    *)
(*   - the registry service iterator and its callers SMC::new and          *)
(*     get_soc_info, and the DVFS table decoder (src/src/sources.rs).      *)
(* The OS frameworks are the environment: what they return is drawn from   *)
(* small sets.  Time is a clock counted in ticks, TicksPerMs to the        *)
(* millisecond, so that Duration::as_millis truncates.                     *)
(***************************************************************************)
EXTENDS Integers, Sequences, FiniteSets, TLC

VARIABLES
  \* ---- IOReport engine --------------------------------------------------
  clock,      \* monotonic time, in ticks
  nextId,     \* the next CoreFoundation handle the framework will hand out
  kindOf,     \* handle -> "chan" | "subs" | "raw" | "delta"
  alive,      \* handles created and not yet released
  faults,     \* handles that were released twice or used after their release
  capTime,    \* raw sample -> the Instant taken right after it was captured
  eng,        \* the IOReport struct: [subs, chan, prev], prev an Option
  engState,   \* "live" | "dropped" | "aborted" (the process died on UB)
  held,       \* the vectors of iterators the caller still owns
  calls,      \* number of get_sample / get_samples calls made so far
  lastCall,   \* what the last get_sample / get_samples call did
  lastSnap,   \* Option: last raw snapshot captured by a get_samples call
  dropLog,    \* kinds of the handles released by Drop for IOReport, in order
  \* ---- SMC client -------------------------------------------------------
  keys,       \* SMC.keys: HashMap<u32, KeyInfo>, as a function on its key set
  firstInfo,  \* FourCC -> metadata of the first successful lookup (history)
  smcCalls,   \* number of SMC operations made so far
  smcLast,    \* what the last SMC operation did
  \* ---- HID scanner ------------------------------------------------------
  hid,        \* the IOHIDSensors struct and its life: [state, sensors, made]
  hidLast,    \* what the last get_metrics call did
  \* ---- registry service iterator and its callers -------------------------
  registry,   \* the kernel objects the process holds: a heap of its own
  iter,       \* the IOServiceIterator a caller drives step by step
  svcLast,    \* what the last SMC::new / get_soc_info call did
  \* ---- channel iteration ------------------------------------------------
  chanIter,   \* the IOReportIterator a caller pulls items from
  yielded,    \* the IOReportIteratorItems the caller holds, in yield order
  iterLast,   \* what the last call on the iterator or on an item did
  \* ---- IOReport::new ------------------------------------------------------
  built,      \* the engines IOReport::new returned and the caller still owns
  newLast,    \* what the last IOReport::new call did
  \* ---- pure conversions --------------------------------------------------
  fourcc,     \* a key and what the FourCC fold and to_be_bytes make of it
  dvfs        \* a DVFS blob and what get_dvfs_mhz makes of it

ioVars  == <<clock, nextId, kindOf, alive, faults, capTime, eng, engState,
             held, calls, lastCall, lastSnap, dropLog>>
smcVars == <<keys, firstInfo, smcCalls, smcLast>>
hidVars == <<hid, hidLast>>
\* the IOReport engine without the heap it shares with the HID scanner
engVars == <<clock, capTime, eng, engState, held, calls, lastCall, lastSnap, dropLog>>
svcVars == <<registry, iter, svcLast>>
pureVars == <<fourcc, dvfs>>
iterVars == <<chanIter, yielded, iterLast>>
newVars == <<built, newLast>>
vars    == <<clock, nextId, kindOf, alive, faults, capTime, eng, engState,
             held, calls, lastCall, lastSnap, dropLog,
             keys, firstInfo, smcCalls, smcLast,
             hid, hidLast, registry, iter, svcLast, fourcc, dvfs,
             chanIter, yielded, iterLast, built, newLast>>

\* ---- bounds of the exploration ------------------------------------------
\* ticks per millisecond
TicksPerMs == 2
\* get_sample / get_samples calls per behaviour
MaxCalls == 2
\* a sleep overshoots by at most this many ticks
MaxJitter == 1
\* SMC operations per behaviour
MaxSmcCalls == 3
\* largest key count the "#KEY" read reports to read_all_keys
MaxKeys == 2
\* largest services array the HID event system hands to get_metrics
MaxServices == 2
\* get_metrics calls per behaviour
MaxScans == 1
\* full records in a DVFS blob
MaxRecords == 2
\* registry entries a matching iterator holds
MaxEntries == 2
\* service iterators made per behaviour
MaxProbes == 1
\* deltas without "IOReportChannels" the framework hands out per behaviour
MaxBadDeltas == 1
\* entries of the "IOReportChannels" array of a delta
MaxItems == 2
\* read_all_keys calls per behaviour
MaxEnumerations == 2
\* IOReport::new calls per behaviour
MaxEngines == 2
\* get_sample / get_samples calls per behaviour of SpecCarry
MaxCarryCalls == 3

\* ---- Option<T> ----------------------------------------------------------
None == <<>>
Some(x) == <<x>>
IsSome(o) == o # <<>>
Unwrap(o) == o[1]

Max(a, b) == IF a >= b THEN a ELSE b
Min(a, b) == IF a <= b THEN a ELSE b

RECURSIVE SumSeq(_)
SumSeq(s) == IF s = <<>> THEN 0 ELSE Head(s) + SumSeq(Tail(s))

\* ---- program constants (io_report.rs) -------------------------------------
\* count.clamp(1, 32)
MinCount == 1
MaxCount == 32
\* elapsed.max(1)
MinElapsed == 1

\* ---- the environment's small input sets ----------------------------------
\* (duration, count) arguments of get_samples: count 0, a count above 32, a
\* duration the count does not divide, a duration of 0.
Requests == { <<0, 0>>, <<70, 3>>, <<80, 100>> }
\* duration argument of get_sample
SampleDurations == { 5 }
\* ticks the caller lets pass between two get_samples calls on the engine
Waits == { 0, 3 }
\* ticks by which every odd-numbered sleep of a call overshoots
Jitters == { 0, MaxJitter }
Jitter(jit, i) == IF i % 2 = 1 THEN jit ELSE 0

\* ---- CoreFoundation handles ----------------------------------------------
\* The heap part H of a state: fields nextId, kindOf, alive, faults.

\* A Create/Copy function returning a +1 reference: the new handle is H.nextId.
CFCreate(H, kind) ==
  [H EXCEPT !.nextId = @ + 1,
            !.kindOf = @ @@ (H.nextId :> kind),
            !.alive  = @ \cup {H.nextId}]

\* CFRelease: releasing a handle that is no longer alive is a fault.
CFRelease(H, id) ==
  IF id \in H.alive THEN [H EXCEPT !.alive = @ \ {id}]
                    ELSE [H EXCEPT !.faults = @ \cup {id}]

\* Passing a handle to a framework function: a fault if it was released.
CFUse(H, id) ==
  IF id \in H.alive THEN H ELSE [H EXCEPT !.faults = @ \cup {id}]

RECURSIVE CFReleaseAll(_, _)
CFReleaseAll(H, ids) ==
  IF ids = <<>> THEN H ELSE CFReleaseAll(CFRelease(H, Head(ids)), Tail(ids))

\* ---- IOReportIterator ----------------------------------------------------
\* IOReportIterator::new on a delta that has "IOReportChannels".
IteratorNew(data) == [sample |-> data, index |-> 0]

\* impl Drop for IOReportIterator
IteratorDrop(H, it) == CFRelease(H, it.sample)

\* Dropping a Vec<(IOReportIterator, u64)> drops its elements in order.
RECURSIVE VecDrop(_, _)
VecDrop(H, v) ==
  IF v = <<>> THEN H ELSE VecDrop(IteratorDrop(H, Head(v).it), Tail(v))

\* ---- IOReport::get_samples -----------------------------------------------
\* (mutant) the upper limit one too high
ClampCountUpperOff(count) == Max(MinCount, Min(count, MaxCount + 1))

\* let count = count.clamp(1, 32)
ClampCount(count) == Max(MinCount, Min(count, MaxCount))

\* (mutant) every pass sleeps the whole duration
StepMsecWhole(duration, count) == duration

\* let step_msec = duration / count as u64
StepMsec(duration, count) == duration \div count

\* raw_sample(): (IOReportCreateSamples(..), Instant::now()); the pair is left
\* in field out.
RawSample(L) ==
  LET H == CFCreate(CFUse(CFUse(L, L.subs), L.chan), "raw")
  IN  [H EXCEPT !.capTime = @ @@ (L.nextId :> L.clock),
                !.rawCreated = @ + 1,
                !.out = [id |-> L.nextId, t |-> L.clock]]

\* IOReportCreateSamplesDelta(a, b, null): the new delta is left in field out;
\* wellFormed says whether it carries the "IOReportChannels" key.
SamplesDelta(L, a, b, wellFormed) ==
  [CFCreate(CFUse(CFUse(L, a), b), IF wellFormed THEN "delta" ELSE "delta_nochan")
     EXCEPT !.out = L.nextId]

\* next.1.duration_since(prev.1).as_millis() as u64
ElapsedMs(prevT, nextT) == (nextT - prevT) \div TicksPerMs

\* (mutant) the lower limit of 1 ms forgotten
AtLeastOneMissing(elapsed) == elapsed

\* elapsed.max(1)
AtLeastOne(elapsed) == Max(elapsed, MinElapsed)

\* (mutant) the left endpoint never advances
NextPrevStale(prev, next) == prev

\* prev = next
NextPrev(prev, next) == next

\* One pass of the loop body, lines 254-263; badAt is the pass whose delta
\* lacks "IOReportChannels", so that IOReportIterator::new panics on unwrap.
SamplesStep(L, i, step, jit, badAt) ==
  LET slept   == [L EXCEPT !.clock = @ + step * TicksPerMs + Jitter(jit, i)]
      L1      == RawSample(slept)
      next    == L1.out
      L2      == SamplesDelta(L1, L.prev.id, next.id, i # badAt)
      diff    == L2.out
      L3      == CFRelease(L2, L.prev.id)
      elapsed == ElapsedMs(L.prev.t, next.t)
      L4      == [L3 EXCEPT !.prev = NextPrev(L.prev, next)]
  IN  IF i = badAt
        THEN [L4 EXCEPT !.status = "panicked"]
        ELSE [L4 EXCEPT !.samples   = Append(@, [it |-> IteratorNew(diff),
                                                 elapsed |-> AtLeastOne(elapsed)]),
                        !.intervals = Append(@, [left |-> L.prev, right |-> next])]

\* for _ in 0..count { .. }
RECURSIVE SamplesLoop(_, _, _, _, _, _)
SamplesLoop(L, i, count, step, jit, badAt) ==
  IF i > count THEN L
  ELSE LET N == SamplesStep(L, i, step, jit, badAt)
       IN  IF N.status = "panicked" THEN N
           ELSE SamplesLoop(N, i + 1, count, step, jit, badAt)

\* let mut prev = match self.prev { Some(x) => x, None => self.raw_sample() }
InitialPrev(L, selfPrev) ==
  IF IsSome(selfPrev) THEN [L EXCEPT !.prev = Unwrap(selfPrev)]
  ELSE LET L1 == RawSample(L) IN [L1 EXCEPT !.prev = L1.out]

\* self.prev = Some(prev)
CarryPrev(prev) == Some(prev)

\* The working state of a call: the heap, the clock and the call's locals.
Frame(start) ==
  [nextId |-> nextId, kindOf |-> kindOf, alive |-> alive, faults |-> faults,
   capTime |-> capTime, clock |-> start, subs |-> eng.subs, chan |-> eng.chan,
   prev |-> None, samples |-> <<>>, intervals |-> <<>>, rawCreated |-> 0,
   out |-> None, status |-> "running"]

BadDeltas == Cardinality({i \in DOMAIN kindOf : kindOf[i] = "delta_nochan"})

\* The passes at which the framework may hand out a delta without channels
\* (0: none): the first and the last pass of the loop.
BadPasses(count) == IF BadDeltas < MaxBadDeltas THEN {0, 1, count} ELSE {0}

\* A call that touched a released handle has undefined behaviour: it goes on
\* as if the handle were alive, or the process dies.
Outcomes(L) == IF L.faults = faults THEN {"asif"} ELSE {"asif", "abort"}

Iterators(samples) == [k \in DOMAIN samples |-> samples[k].it]

\* pub fn get_samples(&mut self, duration: u64, count: usize)
get_samples(wait, duration, count, jit, badAt) ==
  /\ engState = "live"
  /\ LET c     == ClampCount(count)
         step  == StepMsec(duration, c)
         L0    == InitialPrev(Frame(clock + wait), eng.prev)
     IN  \E L \in {SamplesLoop(L0, 1, c, step, jit, badAt)} :
         \* unwinding drops the local vector, hence its iterators
         \E F \in {IF L.status = "panicked" THEN VecDrop(L, L.samples) ELSE L} :
         \E ub \in Outcomes(F) :
           LET status == IF ub = "abort" THEN "aborted"
                         ELSE IF L.status = "panicked" THEN "panicked" ELSE "returned"
           IN
           /\ clock' = F.clock
           /\ nextId' = F.nextId
           /\ kindOf' = F.kindOf
           /\ alive' = F.alive
           /\ faults' = F.faults
           /\ capTime' = F.capTime
           /\ eng' = IF status = "returned" THEN [eng EXCEPT !.prev = CarryPrev(L.prev)] ELSE eng
           /\ engState' = IF status = "aborted" THEN "aborted" ELSE engState
           /\ held' = IF status = "returned" THEN Append(held, Iterators(L.samples)) ELSE held
           /\ calls' = calls + 1
           /\ lastSnap' = Some(L.prev)
           /\ lastCall' = [op |-> "get_samples", status |-> status, n |-> calls + 1,
                           duration |-> duration, count |-> count,
                           start |-> clock + wait, exact |-> (jit = 0),
                           carried |-> eng.prev, snapBefore |-> lastSnap,
                           samples |-> IF status = "returned" THEN L.samples ELSE <<>>,
                           intervals |-> IF status = "returned" THEN L.intervals ELSE <<>>,
                           rawCreated |-> L.rawCreated, after |-> lastCall.op]
           /\ UNCHANGED <<dropLog, smcVars, hidVars, svcVars, pureVars, iterVars, newVars>>

\* (mutant) the second raw sample is kept
SampleReleaseFirstOnly(L, sample1, sample2) == CFRelease(L, sample1)

\* CFRelease(sample1 as _); CFRelease(sample2 as _)
SampleRelease(L, sample1, sample2) == CFRelease(CFRelease(L, sample1), sample2)

\* pub fn get_sample(&self, duration: u64)
get_sample(duration, jit, wellFormed) ==
  /\ engState = "live"
  /\ LET L0 == Frame(clock)
         L1 == RawSample(L0)
         sample1 == L1.out.id
         L2 == RawSample([L1 EXCEPT !.clock = @ + duration * TicksPerMs + jit])
         sample2 == L2.out.id
         L3 == SamplesDelta(L2, sample1, sample2, wellFormed)
         sample3 == L3.out
         F  == SampleRelease(L3, sample1, sample2)
         status == IF wellFormed THEN "returned" ELSE "panicked"
     IN  /\ clock' = F.clock
         /\ nextId' = F.nextId
         /\ kindOf' = F.kindOf
         /\ alive' = F.alive
         /\ faults' = F.faults
         /\ capTime' = F.capTime
         /\ held' = IF wellFormed THEN Append(held, <<IteratorNew(sample3)>>) ELSE held
         /\ calls' = calls + 1
         /\ lastCall' = [op |-> "get_sample", status |-> status, n |-> calls + 1,
                         duration |-> duration, count |-> 1,
                         start |-> clock, exact |-> (jit = 0),
                         carried |-> eng.prev, snapBefore |-> lastSnap,
                         samples |-> <<>>, intervals |-> <<>>,
                         rawCreated |-> F.rawCreated, after |-> lastCall.op,
                         raws |-> {sample1, sample2}, touched |-> F.faults \ faults]
         /\ UNCHANGED <<eng, engState, lastSnap, dropLog, smcVars, hidVars, svcVars, pureVars, iterVars, newVars>>

\* The caller drops the k-th of the values it still owns (NextIOReport lets it
\* drop the oldest first): every iterator in the value is dropped.
RECURSIVE IteratorsDrop(_, _)
IteratorsDrop(H, its) ==
  IF its = <<>> THEN H ELSE IteratorsDrop(IteratorDrop(H, Head(its)), Tail(its))

Heap == [nextId |-> nextId, kindOf |-> kindOf, alive |-> alive, faults |-> faults]

DropReturned(k) ==
  /\ engState # "aborted"
  /\ k \in DOMAIN held
  /\ LET F == IteratorsDrop(Heap, held[k])
     IN  /\ alive' = F.alive
         /\ faults' = F.faults
  /\ held' = [j \in 1..(Len(held) - 1) |-> IF j < k THEN held[j] ELSE held[j + 1]]
  /\ UNCHANGED <<clock, nextId, kindOf, capTime, eng, engState, calls, lastCall,
                 lastSnap, dropLog, smcVars, hidVars, svcVars, pureVars, iterVars, newVars>>

\* (mutant) the releases in the opposite order
DropSequenceReversed(e) ==
  (IF IsSome(e.prev) THEN <<Unwrap(e.prev).id>> ELSE <<>>) \o <<e.subs, e.chan>>

\* impl Drop for IOReport: the handles it releases, in the order of lines 274-278
DropSequence(e) ==
  <<e.chan, e.subs>> \o (IF IsSome(e.prev) THEN <<Unwrap(e.prev).id>> ELSE <<>>)

DropIOReport ==
  /\ engState = "live"
  /\ LET order == DropSequence(eng)
     IN  \E F \in {CFReleaseAll(Heap, order)} :
         \E ub \in Outcomes(F) :
           /\ alive' = F.alive
           /\ faults' = F.faults
           /\ dropLog' = [k \in DOMAIN order |-> kindOf[order[k]]]
           /\ engState' = IF ub = "abort" THEN "aborted" ELSE "dropped"
  /\ UNCHANGED <<clock, nextId, kindOf, capTime, eng, held, calls, lastCall,
                 lastSnap, smcVars, hidVars, svcVars, pureVars, iterVars, newVars>>

\* State after IOReport::new succeeded (descriptor 1, subscription 2, nothing
\* carried) and after SMC::new succeeded (empty metadata cache); no HID
\* scanner and no service iterator made yet.
Constructed ==
  /\ clock = 0
  /\ nextId = 3
  /\ kindOf = (1 :> "chan") @@ (2 :> "subs")
  /\ alive = {1, 2}
  /\ faults = {}
  /\ capTime = <<>>
  /\ eng = [subs |-> 2, chan |-> 1, prev |-> None]
  /\ engState = "live"
  /\ held = <<>>
  /\ calls = 0
  /\ lastCall = [op |-> "none"]
  /\ lastSnap = None
  /\ dropLog = <<>>
  /\ keys = <<>>
  /\ firstInfo = <<>>
  /\ smcCalls = 0
  /\ smcLast = [op |-> "none"]
  /\ hid = [state |-> "none", sensors |-> 0, made |-> {}, scans |-> 0]
  /\ hidLast = [op |-> "none"]
  /\ registry = [nextId |-> 1, kindOf |-> <<>>, alive |-> {}, faults |-> {}, made |-> 0]
  /\ iter = [state |-> "none"]
  /\ svcLast = [op |-> "none"]
  /\ chanIter = [state |-> "none"]
  /\ yielded = <<>>
  /\ iterLast = [op |-> "none"]
  /\ built = <<>>
  /\ newLast = [op |-> "none"]

Init ==
  /\ Constructed
  /\ fourcc = [op |-> "none"]
  /\ dvfs = [op |-> "none"]

NextIOReport ==
  \/ /\ calls < MaxCalls
     /\ \E w \in (IF IsSome(eng.prev) THEN Waits ELSE {0}), r \in Requests, j \in Jitters :
          \E b \in BadPasses(ClampCount(r[2])) : get_samples(w, r[1], r[2], j, b)
  \/ /\ calls < MaxCalls
     /\ \E d \in SampleDurations, ok \in BOOLEAN :
          /\ (~ok => BadDeltas < MaxBadDeltas)
          /\ get_sample(d, 0, ok)
  \/ DropReturned(1)
  \/ DropIOReport

SpecIOReport == Init /\ [][NextIOReport]_vars

\* Longer lives of one engine under punctual sleeps: what a call finds of the
\* calls before it.
CarryRequests == { <<10, 1>>, <<10, 2>> }

NextCarry ==
  \/ /\ calls < MaxCarryCalls
     /\ \E w \in (IF IsSome(eng.prev) THEN Waits ELSE {0}), r \in CarryRequests :
          \E b \in BadPasses(ClampCount(r[2])) : get_samples(w, r[1], r[2], 0, b)
  \/ /\ calls < MaxCarryCalls
     /\ \E d \in SampleDurations, ok \in BOOLEAN :
          /\ (~ok => BadDeltas < MaxBadDeltas)
          /\ get_sample(d, 0, ok)
  \/ DropReturned(1)
  \/ DropIOReport

SpecCarry == Init /\ [][NextCarry]_vars

\* ==== SMC client (src/src/smc.rs) ==========================================

\* ---- program constants ---------------------------------------------------
\* pub bytes: [u8; 32]
PayloadLen == 32
\* key.len() != 4
KeyLen == 4
\* oval.result == 132
ResultKeyNotFound == 132
\* data8 of the three commands
CmdReadVal == 5
CmdByIndex == 8
CmdKeyInfo == 9

\* ---- the environment's small input sets ----------------------------------
\* Keys the caller asks for, as byte strings: "TC0P", "#KEY", "ABC", "ABCDE", "".
CallerKeys ==
  { <<84, 67, 48, 80>>, <<35, 75, 69, 89>>, <<65, 66, 67>>, <<65, 66, 67, 68, 69>>, <<>> }

\* A u32 is kept as its two 16-bit halves, value = hi * 65536 + lo.
U32(hi, lo) == [hi |-> hi, lo |-> lo]
Zero32 == U32(0, 0)

\* data_type values: the FourCCs "ui32" (0x75693332) and "flt " (0x666c7420),
\* and 0xff000000, whose bytes are no UTF-8 text
DataTypes == { U32(30057, 13106), U32(26220, 29728), U32(65280, 0) }
\* data_size values the kernel may report, within and beyond the 32-byte buffer
DataSizes == { 0, 4, 32, 33 }
KeyInfos ==
  { [data_size |-> z, data_type |-> t, data_attributes |-> 0] : z \in DataSizes, t \in DataTypes }

\* KeyInfo::default()
DefaultKeyInfo == [data_size |-> 0, data_type |-> Zero32, data_attributes |-> 0]

\* Payload buffers the kernel may fill in
Payloads == { [i \in 1..PayloadLen |-> 0], [i \in 1..PayloadLen |-> i] }

\* What one IOConnectCallStructMethod call may come back with: the kernel
\* return code rs and the fields of the response struct.
Failures ==
  { [rs |-> c, result |-> r, key |-> Zero32, key_info |-> DefaultKeyInfo,
     bytes |-> [i \in 1..PayloadLen |-> 0]] : c \in {0, 1}, r \in {ResultKeyNotFound, 7} }
  \cup { [rs |-> 1, result |-> 0, key |-> Zero32, key_info |-> DefaultKeyInfo,
          bytes |-> [i \in 1..PayloadLen |-> 0]] }

Responses(infos, payloads) ==
  { [rs |-> 0, result |-> 0, key |-> Zero32, key_info |-> ki, bytes |-> b] :
      ki \in infos, b \in payloads }
  \cup Failures

KeyInfoResponses == Responses(KeyInfos, {[i \in 1..PayloadLen |-> 0]})
ReadValResponses == Responses({DefaultKeyInfo}, Payloads)

\* Key codes the kernel may keep at an index: "TC0P" (0x54433050), "#KEY"
\* (0x234b4559), and 0x54ff3050, whose bytes are no UTF-8 text
IndexedKeys == { U32(21571, 12368), U32(9035, 17753), U32(21759, 12368) }
\* Indices the caller asks for
Indices == { 0, 1 }
KeyByIndexResponses ==
  { [rs |-> 0, result |-> 0, key |-> k, key_info |-> DefaultKeyInfo,
     bytes |-> [i \in 1..PayloadLen |-> 0]] : k \in IndexedKeys }
  \cup Failures

\* ---- Result<T, E> --------------------------------------------------------
Ok(v)  == [ok |-> TRUE, val |-> v]
Err(e) == [ok |-> FALSE, err |-> e]

\* (mutant) the result byte of the struct is looked at before the kernel code
SmcReadResultFirst(response) ==
  IF response.result = ResultKeyNotFound THEN Err([kind |-> "key_not_found", code |-> 0])
  ELSE IF response.result # 0 THEN Err([kind |-> "protocol", code |-> response.result])
  ELSE IF response.rs # 0 THEN Err([kind |-> "transport", code |-> response.rs])
  ELSE Ok(response)

\* fn read(&self, input: &KeyData): the classification of lines 166-179
SmcRead(response) ==
  IF response.rs # 0 THEN Err([kind |-> "transport", code |-> response.rs])
  ELSE IF response.result = ResultKeyNotFound THEN Err([kind |-> "key_not_found", code |-> 0])
  ELSE IF response.result # 0 THEN Err([kind |-> "protocol", code |-> response.result])
  ELSE Ok(response)

\* acc << 8 on u32: the top byte is shifted out
Shl8(u) == U32((u.hi % 256) * 256 + (u.lo \div 256), (u.lo % 256) * 256)

\* acc + x as u32, for a byte x
AddByte(u, x) == U32((u.hi + ((u.lo + x) \div 65536)) % 65536, (u.lo + x) % 65536)

\* key.bytes().fold(0, |acc, x| (acc << 8) + x as u32)
RECURSIVE FourCCFold(_, _)
FourCCFold(acc, bytes) ==
  IF bytes = <<>> THEN acc
  ELSE FourCCFold(AddByte(Shl8(acc), Head(bytes)), Tail(bytes))

FourCC(key) == FourCCFold(Zero32, key)

\* (mutant) keys shorter than 4 bytes accepted
KeyLengthOkAtMost(key) == Len(key) <= KeyLen

\* key.len() != 4 is the error case
KeyLengthOk(key) == Len(key) = KeyLen

\* (mutant) the cache never answers
CacheGetMiss(cache, k) == None

\* self.keys.get(&key)
CacheGet(cache, k) == IF k \in DOMAIN cache THEN Some(cache[k]) ELSE None

\* (mutant) the new entry replaces the whole map
CacheInsertAlone(cache, k, ki) == (k :> ki)

\* self.keys.insert(key, oval.key_info)
CacheInsert(cache, k, ki) == [x \in (DOMAIN cache) \cup {k} |-> IF x = k THEN ki ELSE cache[x]]

\* (mutant) every request carries the default metadata
RequestDefaultInfo(cmd, k, ki, index) ==
  [data8 |-> cmd, key |-> k, key_info |-> DefaultKeyInfo, data32 |-> index]

\* The requests the client sends, as far as the kernel reads them.
Request(cmd, k, ki, index) == [data8 |-> cmd, key |-> k, key_info |-> ki, data32 |-> index]

\* One exchange with the kernel: the request goes out, the response comes in.
Exchange(S, request, response) ==
  [S EXCEPT !.issued = Append(@, request), !.answers = Append(@, response)]

\* pub fn read_key_info(&mut self, key: &str): the client state S = [keys,
\* issued, answers] after the call and the call's result in field ret.
ReadKeyInfo(S, key, response) ==
  IF ~KeyLengthOk(key) THEN [S EXCEPT !.ret = Err([kind |-> "invalid_key", code |-> 0])]
  ELSE LET k == FourCC(key)
           hit == CacheGet(S.keys, k)
       IN  IF IsSome(hit) THEN [S EXCEPT !.ret = Ok(Unwrap(hit))]
           ELSE LET sent == Exchange(S, Request(CmdKeyInfo, k, DefaultKeyInfo, 0), response)
                    oval == SmcRead(response)
                IN  IF ~oval.ok THEN [sent EXCEPT !.ret = oval]
                    ELSE [sent EXCEPT !.keys = CacheInsert(@, k, oval.val.key_info),
                                      !.ret = Ok(oval.val.key_info)]

\* (mutant) the four bytes of a u32, least significant first
ToLeBytes(u) == << u.lo % 256, u.lo \div 256, u.hi % 256, u.hi \div 256 >>

\* data_type.to_be_bytes(): the four bytes of a u32, most significant first
ToBeBytes(u) == << u.hi \div 256, u.hi % 256, u.lo \div 256, u.lo % 256 >>

\* std::str::from_utf8(..).is_ok(): the bytes are well-formed UTF-8
Continuation(b) == b >= 128 /\ b <= 191

RECURSIVE Utf8Valid(_)
Utf8Valid(b) ==
  IF b = <<>> THEN TRUE
  ELSE LET h == Head(b)
           n == Len(b)
       IN  IF h < 128 THEN Utf8Valid(Tail(b))
           ELSE IF h >= 194 /\ h <= 223
             THEN n >= 2 /\ Continuation(b[2]) /\ Utf8Valid(SubSeq(b, 3, n))
           ELSE IF h >= 224 /\ h <= 239
             THEN /\ n >= 3
                  /\ Continuation(b[2]) /\ Continuation(b[3])
                  /\ (h = 224 => b[2] >= 160)
                  /\ (h = 237 => b[2] <= 159)
                  /\ Utf8Valid(SubSeq(b, 4, n))
           ELSE IF h >= 240 /\ h <= 244
             THEN /\ n >= 4
                  /\ Continuation(b[2]) /\ Continuation(b[3]) /\ Continuation(b[4])
                  /\ (h = 240 => b[2] >= 144)
                  /\ (h = 244 => b[2] <= 143)
                  /\ Utf8Valid(SubSeq(b, 5, n))
           ELSE FALSE

\* pub fn read_val(&mut self, key: &str); field panicked is set when the unwrap
\* of from_utf8 fails or the slice oval.bytes[0..data_size] is out of range.
ReadVal(S, key, infoResponse, valResponse) ==
  LET S1 == ReadKeyInfo(S, key, infoResponse)
  IN  IF ~S1.ret.ok THEN S1
      ELSE LET key_info == S1.ret.val
               k == FourCC(key)
               sent == Exchange(S1, Request(CmdReadVal, k, key_info, 0), valResponse)
               oval == SmcRead(valResponse)
           IN  IF ~oval.ok THEN [sent EXCEPT !.ret = oval]
               ELSE IF ~Utf8Valid(ToBeBytes(key_info.data_type))
                       \/ key_info.data_size > PayloadLen
                 THEN [sent EXCEPT !.ret = None, !.panicked = TRUE]
                 ELSE [sent EXCEPT !.ret = Ok([name |-> key,
                                               unit |-> ToBeBytes(key_info.data_type),
                                               data |-> SubSeq(oval.val.bytes, 1, key_info.data_size)])]

\* pub fn key_by_index(&self, index: u32); field panicked is set when the
\* unwrap of from_utf8 fails.
KeyByIndex(S, index, response) ==
  LET sent == Exchange(S, Request(CmdByIndex, Zero32, DefaultKeyInfo, index), response)
      oval == SmcRead(response)
  IN  IF ~oval.ok THEN [sent EXCEPT !.ret = oval]
      ELSE IF ~Utf8Valid(ToBeBytes(oval.val.key))
        THEN [sent EXCEPT !.ret = None, !.panicked = TRUE]
        ELSE [sent EXCEPT !.ret = Ok(ToBeBytes(oval.val.key))]

Client == [keys |-> keys, issued |-> <<>>, answers |-> <<>>, ret |-> None, panicked |-> FALSE]

\* What an operation on key did, for the claims: the metadata the operation
\* worked with (info, an Option), and what was known and cached before it.
Outcome(op, key, S, info, valOk) ==
  [op |-> op, key |-> key, n |-> smcCalls + 1, ret |-> S.ret, panicked |-> S.panicked,
   issued |-> S.issued, answers |-> S.answers, info |-> info, valOk |-> valOk,
   keysBefore |-> keys,
   firstBefore |-> IF key \in DOMAIN firstInfo THEN Some(firstInfo[key]) ELSE None]

\* The first metadata an operation on key got: recorded once, never replaced.
NoteFirst(key, info) ==
  IF IsSome(info) /\ key \notin DOMAIN firstInfo
    THEN [x \in (DOMAIN firstInfo) \cup {key} |-> IF x = key THEN Unwrap(info) ELSE firstInfo[x]]
    ELSE firstInfo

read_key_info(key, response) ==
  /\ smcCalls < MaxSmcCalls
  /\ \E S \in {ReadKeyInfo(Client, key, response)} :
       LET info == IF S.ret.ok THEN Some(S.ret.val) ELSE None
       IN  /\ keys' = S.keys
           /\ smcLast' = Outcome("read_key_info", key, S, info, FALSE)
           /\ firstInfo' = NoteFirst(key, info)
  /\ smcCalls' = smcCalls + 1
  /\ UNCHANGED <<ioVars, hidVars, svcVars, pureVars, iterVars, newVars>>

read_val(key, infoResponse, valResponse) ==
  /\ smcCalls < MaxSmcCalls
  /\ \E S \in {ReadVal(Client, key, infoResponse, valResponse)} :
       LET sent == {S.issued[i] : i \in DOMAIN S.issued}
           reads == {r \in sent : r.data8 = CmdReadVal}
           \* the metadata of a read_val is what its command-5 request carries
           info == IF reads = {} THEN None ELSE Some((CHOOSE r \in reads : TRUE).key_info)
           valOk == reads # {} /\ SmcRead(valResponse).ok
       IN  /\ keys' = S.keys
           /\ smcLast' = Outcome("read_val", key, S, info, valOk)
           /\ firstInfo' = NoteFirst(key, IF valOk /\ ~S.panicked THEN info ELSE None)
  /\ smcCalls' = smcCalls + 1
  /\ UNCHANGED <<ioVars, hidVars, svcVars, pureVars, iterVars, newVars>>

key_by_index(index, response) ==
  /\ smcCalls < MaxSmcCalls
  /\ \E S \in {KeyByIndex(Client, index, response)} :
       /\ keys' = S.keys
       /\ smcLast' = Outcome("key_by_index", <<>>, S, None, FALSE)
  /\ smcCalls' = smcCalls + 1
  /\ UNCHANGED <<firstInfo, ioVars, hidVars, svcVars, pureVars, iterVars, newVars>>

\* The kernel answers only the requests it is sent: the responses to draw for
\* a call are those to the requests the call issues.
Unasked == [rs |-> 0, result |-> 0, key |-> Zero32, key_info |-> DefaultKeyInfo, bytes |-> [i \in 1..PayloadLen |-> 0]]

KeyInfoAnswers(key) ==
  IF ReadKeyInfo(Client, key, Unasked).issued = <<>> THEN {Unasked} ELSE KeyInfoResponses

ReadValAnswers(key, infoResponse) ==
  IF ReadKeyInfo(Client, key, infoResponse).ret.ok THEN ReadValResponses ELSE {Unasked}

NextSMC ==
  \/ \E key \in CallerKeys : \E r \in KeyInfoAnswers(key) : read_key_info(key, r)
  \/ \E key \in CallerKeys : \E r9 \in KeyInfoAnswers(key) :
       \E r5 \in ReadValAnswers(key, r9) : read_val(key, r9, r5)
  \/ \E i \in Indices : \E r \in KeyByIndexResponses : key_by_index(i, r)

SpecSMC == Init /\ [][NextSMC]_vars

\* ---- the FourCC conversions, on their own ----------------------------------
\* Bytes of ASCII keys: NUL, '#', '0', 'A', DEL
AsciiBytes == { 0, 35, 48, 65, 127 }
Keys4 == [1..KeyLen -> AsciiBytes]
\* Keys to tell apart from the first: "TC0P", "#KEY", four NULs, "A00A"
OtherKeys == { <<84, 67, 48, 80>>, <<35, 75, 69, 89>>, <<0, 0, 0, 0>>, <<65, 48, 48, 65>> }

InitFourCC ==
  /\ Constructed
  /\ fourcc \in [op : {"input"}, key : Keys4, other : OtherKeys]
  /\ dvfs = [op |-> "none"]

\* The fold of read_key_info and read_val on both keys, and the bytes
\* key_by_index and the unit decoding make of the first key's code.
Encode ==
  /\ fourcc.op = "input"
  /\ fourcc' = [op |-> "encoded", key |-> fourcc.key, other |-> fourcc.other,
                code |-> FourCC(fourcc.key), otherCode |-> FourCC(fourcc.other),
                bytes |-> ToBeBytes(FourCC(fourcc.key))]
  /\ UNCHANGED <<ioVars, smcVars, hidVars, svcVars, dvfs, iterVars, newVars>>

NextFourCC == Encode

SpecFourCC == InitFourCC /\ [][NextFourCC]_vars

\* ---- read_all_keys --------------------------------------------------------
\* "#KEY"
KeyCountKey == <<35, 75, 69, 89>>

\* u32::from_be_bytes
FromBeBytes(b) == U32(b[1] * 256 + b[2], b[3] * 256 + b[4])

\* A u32 as a number, for the u32 values that fit the checker's integers
AsNat(u) == u.hi * 65536 + u.lo

\* (mutant) an error of key_by_index ends the loop with the keys read so far
RaisePartial(K) == IF K.panicked THEN K ELSE [K EXCEPT !.ret = Ok(K.out)]

\* let key = self.key_by_index(i)?: the error, or the panic, leaves the
\* function as it is
Raise(K) == K

\* for i in 0..val: passes i, i + 1, ... of the loop of lines 229-238.  Field
\* out is the vector keys; visits notes, for each pass that got as far as
\* read_val, the index, the key key_by_index gave and whether read_val was Ok.
RECURSIVE KeysLoop(_, _, _, _)
KeysLoop(S, i, n, script) ==
  IF i >= n THEN [S EXCEPT !.ret = Ok(S.out)]
  ELSE LET K == KeyByIndex(S, i, script[i + 1].r8)
       IN  IF K.panicked \/ ~K.ret.ok THEN Raise(K)
           ELSE LET key == K.ret.val
                    V == ReadVal(K, key, script[i + 1].r9, script[i + 1].r5)
                    seen == [index |-> i, key |-> key, ok |-> ~V.panicked /\ V.ret.ok]
                    W == [V EXCEPT !.visits = Append(@, seen)]
                IN  IF V.panicked THEN W
                    ELSE IF ~V.ret.ok THEN KeysLoop(W, i + 1, n, script)
                    ELSE KeysLoop([W EXCEPT !.out = Append(@, V.ret.val.name)], i + 1, n, script)

\* Lines 225-226: the "#KEY" read and the count in its first four bytes;
\* field count is Some(N) once the read has yielded the count N.  The slice
\* val.data[0..4] panics on a payload shorter than 4 bytes.
KeyCount(S, r9, r5) ==
  LET S1 == ReadVal(S, KeyCountKey, r9, r5)
  IN  IF S1.panicked \/ ~S1.ret.ok THEN S1
      ELSE IF Len(S1.ret.val.data) < 4 THEN [S1 EXCEPT !.ret = None, !.panicked = TRUE]
      ELSE [S1 EXCEPT !.count = Some(AsNat(FromBeBytes(SubSeq(S1.ret.val.data, 1, 4))))]

\* pub fn read_all_keys(&mut self)
ReadAllKeys(S, r9, r5, script) ==
  LET C == KeyCount(S, r9, r5)
  IN  IF IsSome(C.count) THEN KeysLoop(C, 0, Unwrap(C.count), script) ELSE C

KeysClient == [keys |-> keys, issued |-> <<>>, answers |-> <<>>, ret |-> None, panicked |-> FALSE,
               count |-> None, out |-> <<>>, visits |-> <<>>]

\* The first metadata of every key a pass read successfully
RECURSIVE NoteVisits(_, _, _)
NoteVisits(first, cache, visits) ==
  IF visits = <<>> THEN first
  ELSE LET v == Head(visits)
           noted == IF v.ok /\ v.key \notin DOMAIN first
                      THEN [x \in (DOMAIN first) \cup {v.key} |->
                              IF x = v.key THEN cache[FourCC(v.key)] ELSE first[x]]
                      ELSE first
       IN  NoteVisits(noted, cache, Tail(visits))

read_all_keys(r9, r5, script) ==
  /\ smcCalls < MaxEnumerations
  /\ \E S \in {ReadAllKeys(KeysClient, r9, r5, script)} :
       /\ keys' = S.keys
       /\ smcLast' = [op |-> "read_all_keys", n |-> smcCalls + 1, ret |-> S.ret,
                      panicked |-> S.panicked, issued |-> S.issued, answers |-> S.answers,
                      count |-> S.count, visits |-> S.visits, keysBefore |-> keys]
       /\ firstInfo' = NoteVisits(firstInfo, S.keys,
                           IF IsSome(S.count)
                             THEN <<[index |-> 0, key |-> KeyCountKey, ok |-> TRUE]>> \o S.visits
                             ELSE S.visits)
  /\ smcCalls' = smcCalls + 1
  /\ UNCHANGED <<ioVars, hidVars, svcVars, pureVars, iterVars, newVars>>

\* ---- the kernel's answers to one enumeration -------------------------------
Answer(rs, result, key, ki, bytes) ==
  [rs |-> rs, result |-> result, key |-> key, key_info |-> ki, bytes |-> bytes]

\* The payload of "#KEY" reporting n keys
CountPayload(n) == [i \in 1..PayloadLen |-> IF i = 4 THEN n ELSE 0]

Ui32Info(size) == [data_size |-> size, data_type |-> U32(30057, 13106), data_attributes |-> 0]

\* Metadata of "#KEY": 4 bytes, or none at all
CountInfoResponses ==
  { Answer(0, 0, Zero32, Ui32Info(4), Unasked.bytes),
    Answer(0, 0, Zero32, Ui32Info(0), Unasked.bytes),
    Answer(1, 0, Zero32, DefaultKeyInfo, Unasked.bytes) }

CountValResponses ==
  { Answer(0, 0, Zero32, DefaultKeyInfo, CountPayload(n)) : n \in 0..MaxKeys }
  \cup { Answer(0, ResultKeyNotFound, Zero32, DefaultKeyInfo, Unasked.bytes) }

\* What the kernel may answer during one pass: to command 8, then to the
\* commands 9 and 5 of the read_val that follows.
Passes ==
  LET tc0p == Answer(0, 0, U32(21571, 12368), DefaultKeyInfo, Unasked.bytes)
      info == Answer(0, 0, Zero32, Ui32Info(4), Unasked.bytes)
      val  == Answer(0, 0, Zero32, DefaultKeyInfo, [i \in 1..PayloadLen |-> i])
  IN  { [r8 |-> tc0p, r9 |-> info, r5 |-> val],
        [r8 |-> tc0p, r9 |-> Answer(0, ResultKeyNotFound, Zero32, DefaultKeyInfo, Unasked.bytes), r5 |-> Unasked],
        [r8 |-> tc0p, r9 |-> info, r5 |-> Answer(1, 0, Zero32, DefaultKeyInfo, Unasked.bytes)],
        [r8 |-> tc0p, r9 |-> Answer(0, 0, Zero32, Ui32Info(33), Unasked.bytes), r5 |-> val],
        [r8 |-> Answer(0, 0, U32(9035, 17753), DefaultKeyInfo, Unasked.bytes), r9 |-> Unasked, r5 |-> val],
        [r8 |-> Answer(0, 7, Zero32, DefaultKeyInfo, Unasked.bytes), r9 |-> Unasked, r5 |-> Unasked],
        [r8 |-> Answer(0, 0, U32(21759, 12368), DefaultKeyInfo, Unasked.bytes), r9 |-> Unasked, r5 |-> Unasked] }

\* The count a "#KEY" read answered by r9 and r5 yields: the passes to script
PassesAsked(r9, r5) ==
  LET S == KeyCount(KeysClient, r9, r5)
  IN  IF IsSome(S.count) THEN Unwrap(S.count) ELSE 0

\* A pass whose command-8 exchange fails, or names a key that is not UTF-8,
\* ends the enumeration (lines 230-231): the kernel is asked nothing after it.
Ends(pass) == ~SmcRead(pass.r8).ok \/ ~Utf8Valid(ToBeBytes(pass.r8.key))

Idle == [r8 |-> Unasked, r9 |-> Unasked, r5 |-> Unasked]

\* The scripts of n passes: the passes after one that ends the enumeration
\* are idle.
RECURSIVE Scripts(_)
Scripts(n) ==
  IF n = 0 THEN { <<>> }
  ELSE { <<pass>> \o rest : pass \in {q \in Passes : ~Ends(q)}, rest \in Scripts(n - 1) }
       \cup { <<pass>> \o [i \in 1..(n - 1) |-> Idle] : pass \in {q \in Passes : Ends(q)} }

NextKeys ==
  \E r9 \in CountInfoResponses, r5 \in CountValResponses :
    \E script \in Scripts(PassesAsked(r9, r5)) : read_all_keys(r9, r5, script)

SpecKeys == Init /\ [][NextKeys]_vars

\* ==== HID temperature scanner (src/src/io_hid.rs) ============================

\* ---- program constants ---------------------------------------------------
\* CFStringGetCString(val, buf.as_mut_ptr(), 128, ..)
CStringBufLen == 128

\* ---- the environment's small input sets ----------------------------------
\* "Product" properties: "a", "b", "a\0b", and 128 bytes of 'a', which do
\* not fit the conversion buffer with their terminating NUL
LongName == [i \in 1..CStringBufLen |-> 97]
\* One element of the services array: is the service reference non-null, the
\* copied "Product" property (None: null) and the temperature of the copied
\* event (None: null).
Service(sc, product, event) == [sc |-> sc, product |-> product, event |-> event]
Services ==
  { Service(FALSE, None, None),
    Service(TRUE, None, Some(1)),
    Service(TRUE, Some(<<97>>), None),
    Service(TRUE, Some(LongName), Some(1)),
    Service(TRUE, Some(<<97>>), Some(1)),
    Service(TRUE, Some(<<97, 0, 98>>), Some(2)),
    Service(TRUE, Some(<<98>>), Some(1)) }

ServiceArrays == UNION { [1..n -> Services] : n \in 0..MaxServices }

\* What the HID event system answers to one get_metrics call: no client, a
\* client but no services array, or a client and an array.
HidAnswers ==
  { [system |-> FALSE, services |-> None], [system |-> TRUE, services |-> None] }
  \cup { [system |-> TRUE, services |-> Some(a)] : a \in ServiceArrays }

\* ---- strings ---------------------------------------------------------------
\* CStr::from_ptr: the bytes before the first NUL
RECURSIVE UntilNul(_)
UntilNul(bytes) ==
  IF bytes = <<>> \/ Head(bytes) = 0 THEN <<>>
  ELSE <<Head(bytes)>> \o UntilNul(Tail(bytes))

\* pub fn from_cfstr: None stands for the panic on a failed conversion
from_cfstr(val) ==
  IF Len(val) + 1 > CStringBufLen THEN None ELSE Some(UntilNul(val))

\* a < b for Rust Strings: lexicographic on the bytes
RECURSIVE StrLess(_, _)
StrLess(a, b) ==
  IF b = <<>> THEN FALSE
  ELSE IF a = <<>> THEN TRUE
  ELSE IF Head(a) # Head(b) THEN Head(a) < Head(b)
  ELSE StrLess(Tail(a), Tail(b))

\* ---- items.sort_by(|a, b| a.0.partial_cmp(&b.0).unwrap()) -------------------
\* A stable sort: an element goes behind every element that is not greater.
RECURSIVE InsertByName(_, _)
InsertByName(sorted, x) ==
  IF sorted = <<>> THEN <<x>>
  ELSE IF StrLess(x.name, Head(sorted).name) THEN <<x>> \o sorted
  ELSE <<Head(sorted)>> \o InsertByName(Tail(sorted), x)

\* (mutant) the items as collected
SortByNameSkipped(items) == items

RECURSIVE SortByName(_)
SortByName(items) ==
  IF items = <<>> THEN <<>>
  ELSE InsertByName(SortByName(SubSeq(items, 1, Len(items) - 1)), items[Len(items)])

\* ---- pub fn get_metrics ------------------------------------------------------
\* (mutant) a skip ends the loop
ContinueAsBreak(i, n) == n + 1

\* continue: the loop goes on with the next index
Continue(i, n) == i + 1

\* One pass of the loop of lines 91-110 over service svc.  L holds the heap,
\* the items collected and the status of the call.
Pass(L, svc) ==
  IF ~svc.sc THEN [L EXCEPT !.skipped = TRUE]
  ELSE LET L1 == CFCreate(L, "product_key")
       IN  IF ~IsSome(svc.product) THEN [L1 EXCEPT !.skipped = TRUE]
           ELSE LET L2 == CFCreate(L1, "product")
                    name == from_cfstr(Unwrap(svc.product))
                IN  IF ~IsSome(name) THEN [L2 EXCEPT !.status = "panicked"]
                    ELSE IF ~IsSome(svc.event) THEN [L2 EXCEPT !.skipped = TRUE]
                    ELSE LET L3 == CFCreate(L2, "event")
                             L4 == CFRelease(L3, L2.nextId)
                         IN  [L4 EXCEPT !.skipped = FALSE,
                                        !.items = Append(@, [name |-> Unwrap(name),
                                                             temp |-> Unwrap(svc.event)])]

RECURSIVE MetricsLoop(_, _, _)
MetricsLoop(L, i, services) ==
  IF i > Len(services) THEN L
  ELSE LET P == Pass(L, services[i])
       IN  IF P.status = "panicked" THEN P
           ELSE MetricsLoop(P, IF P.skipped THEN Continue(i, Len(services)) ELSE i + 1, services)

\* The whole call, against the answers of the HID event system.
GetMetrics(H, answers) ==
  LET L0 == [nextId |-> H.nextId, kindOf |-> H.kindOf, alive |-> H.alive, faults |-> H.faults,
             items |-> <<>>, skipped |-> FALSE, status |-> "running", ret |-> <<>>]
  IN  IF ~answers.system THEN [L0 EXCEPT !.status = "returned"]
      ELSE LET L1 == CFCreate(L0, "system")
           IN  IF ~IsSome(answers.services) THEN [L1 EXCEPT !.status = "returned"]
               ELSE LET L2 == CFCreate(L1, "services")
                        L3 == MetricsLoop(L2, 1, Unwrap(answers.services))
                    IN  IF L3.status = "panicked" THEN L3
                        ELSE LET L4 == CFRelease(CFRelease(L3, L1.nextId), L0.nextId)
                             IN  [L4 EXCEPT !.status = "returned", !.ret = SortByName(L4.items)]

\* pub fn new: two key strings, two numbers and the dictionary made of them
IOHIDSensorsNew ==
  /\ hid.state = "none"
  /\ \E H \in {CFCreate(CFCreate(CFCreate(CFCreate(CFCreate(Heap,
                   "key"), "key"), "num"), "num"), "dict")} :
       /\ nextId' = H.nextId
       /\ kindOf' = H.kindOf
       /\ alive' = H.alive
       /\ faults' = H.faults
       /\ hid' = [hid EXCEPT !.state = "live", !.sensors = H.nextId - 1,
                             !.made = nextId .. (H.nextId - 1)]
  /\ UNCHANGED <<engVars, hidLast, smcVars, svcVars, pureVars, iterVars, newVars>>

get_metrics(answers) ==
  /\ hid.state = "live"
  /\ hid.scans < MaxScans
  /\ \E L \in {GetMetrics(Heap, answers)} :
       /\ nextId' = L.nextId
       /\ kindOf' = L.kindOf
       /\ alive' = L.alive
       /\ faults' = L.faults
       /\ hid' = [hid EXCEPT !.scans = @ + 1, !.made = @ \cup (nextId .. (L.nextId - 1))]
       /\ hidLast' = [op |-> "get_metrics", status |-> L.status, answers |-> answers,
                      items |-> L.items, ret |-> L.ret, made |-> nextId .. (L.nextId - 1)]
  /\ UNCHANGED <<engVars, smcVars, svcVars, pureVars, iterVars, newVars>>

\* impl Drop for IOHIDSensors
DropIOHIDSensors ==
  /\ hid.state = "live"
  /\ \E H \in {CFRelease(Heap, hid.sensors)} :
       /\ alive' = H.alive
       /\ faults' = H.faults
  /\ hid' = [hid EXCEPT !.state = "dropped"]
  /\ UNCHANGED <<nextId, kindOf, engVars, hidLast, smcVars, svcVars, pureVars, iterVars, newVars>>

NextHID ==
  \/ IOHIDSensorsNew
  \/ \E a \in HidAnswers : get_metrics(a)
  \/ DropIOHIDSensors

SpecHID == Init /\ [][NextHID]_vars

\* ==== DVFS tables (src/src/sources.rs) ======================================

\* ---- program constants ---------------------------------------------------
\* obj_len / 8, chunks_exact(8)
RecordLen == 8
\* freqs[i] / 1000 / 1000
Thousand == 1000

\* ---- the environment's small input sets ----------------------------------
\* Little-endian frequency words: 0, 999,999, 1,000,000, 600,000,000,
\* 3,204,000,000 and 4,294,967,295 Hz
FreqWords ==
  { <<0, 0, 0, 0>>, <<63, 66, 15, 0>>, <<64, 66, 15, 0>>, <<0, 70, 195, 35>>,
    <<0, 41, 249, 190>>, <<255, 255, 255, 255>> }
\* Little-endian voltage words: 0, 900 and 0x80000001
VoltWords == { <<0, 0, 0, 0>>, <<132, 3, 0, 0>>, <<1, 0, 0, 128>> }
DvfsRecords == { f \o v : f \in FreqWords, v \in VoltWords }
\* Bytes after the last full record
Trailers == { <<>>, <<9>>, <<1, 2, 3, 4, 5, 6, 7>> }

RECURSIVE Flatten(_)
Flatten(seqs) == IF seqs = <<>> THEN <<>> ELSE Head(seqs) \o Flatten(Tail(seqs))

DvfsBlobs ==
  { Flatten(recs) \o t : recs \in UNION { [1..n -> DvfsRecords] : n \in 0..MaxRecords },
                         t \in Trailers }

\* ---- pub fn get_dvfs_mhz -----------------------------------------------------
\* (mutant) the word read most significant byte first
FromLeBytesSwapped(b) == FromBeBytes(b)

\* u32::from_le_bytes
FromLeBytes(b) == U32(b[4] * 256 + b[3], b[2] * 256 + b[1])

\* u / d on u32, for a divisor below 32768: long division over the two halves
DivU32(u, d) ==
  LET r == u.hi % d
  IN  U32(u.hi \div d, (r * 65536 + u.lo) \div d)

\* obj_val.chunks_exact(n): the full chunks, a shorter rest is left out
RECURSIVE ChunksExact(_, _)
ChunksExact(bytes, n) ==
  IF Len(bytes) < n THEN <<>>
  ELSE <<SubSeq(bytes, 1, n)>> \o ChunksExact(SubSeq(bytes, n + 1, Len(bytes)), n)

\* The dictionary is a function from keys to blobs.  None stands for the
\* panic of cfdict_get_val(dict, key).unwrap() on a missing key; the value is
\* the tuple (volts, freqs) of line 325.
GetDvfsMhz(dict, key) ==
  IF key \notin DOMAIN dict THEN None
  ELSE LET obj_val == dict[key]
           items_count == Len(obj_val) \div RecordLen
           chunks == ChunksExact(obj_val, RecordLen)
           volts == [i \in 1..items_count |->
                       IF i <= Len(chunks) THEN FromLeBytes(SubSeq(chunks[i], 5, 8)) ELSE Zero32]
           freqs == [i \in 1..items_count |->
                       IF i <= Len(chunks)
                         THEN DivU32(DivU32(FromLeBytes(SubSeq(chunks[i], 1, 4)), Thousand), Thousand)
                         ELSE Zero32]
       IN  Some(<<volts, freqs>>)

InitDvfs ==
  /\ Constructed
  /\ fourcc = [op |-> "none"]
  /\ dvfs \in [op : {"input"}, key : {"voltage-states9"},
                dict : { ("voltage-states9" :> b) : b \in DvfsBlobs } \cup { <<>> }]

get_dvfs_mhz ==
  /\ dvfs.op = "input"
  /\ dvfs' = [op |-> "decoded", key |-> dvfs.key, dict |-> dvfs.dict,
              ret |-> GetDvfsMhz(dvfs.dict, dvfs.key)]
  /\ UNCHANGED <<ioVars, smcVars, hidVars, svcVars, fourcc, iterVars, newVars>>

NextDvfs == get_dvfs_mhz

SpecDvfs == InitDvfs /\ [][NextDvfs]_vars

\* ==== Registry service iterator (src/src/smc.rs, src/src/sources.rs) =========

\* ---- the environment's small input sets ----------------------------------
\* One registry entry of a matching iterator: its name (None: the kernel
\* fails IORegistryEntryGetName), the kernel code of IOServiceOpen on it, and
\* its properties dictionary (None: IORegistryEntryCreateCFProperties fails).
Entry(name, open, props) == [name |-> name, open |-> open, props |-> props]

\* What IOServiceGetMatchingServices answers: its return code and the entries
\* the iterator it hands out will walk.
MatchAnswers(kinds) ==
  { [rc |-> 1, entries |-> <<>>] }
  \cup { [rc |-> 0, entries |-> l] : l \in UNION { [1..n -> kinds] : n \in 0..MaxEntries } }

StepEntries == { Entry(Some("pmgr"), 0, None), Entry(None, 0, None) }

SmcEntries ==
  { Entry(Some("AppleSMCKeysEndpoint"), 0, None), Entry(Some("AppleSMCKeysEndpoint"), 1, None),
    Entry(Some("AppleSMC"), 0, None), Entry(None, 0, None) }

\* DVFS blobs of a pmgr entry: no record, or one record of 600 MHz at 900
NoRecord == <<>>
OneRecord == <<0, 70, 195, 35, 132, 3, 0, 0>>
Pmgr(e, p, g) ==
  ("voltage-states1-sram" :> e) @@ ("voltage-states5-sram" :> p) @@ ("voltage-states9" :> g)
PmgrDicts ==
  { Pmgr(OneRecord, OneRecord, OneRecord), Pmgr(OneRecord, OneRecord, NoRecord),
    Pmgr(NoRecord, OneRecord, OneRecord), Pmgr(OneRecord, NoRecord, OneRecord),
    ("voltage-states1-sram" :> OneRecord) @@ ("voltage-states5-sram" :> OneRecord) }

SocEntries ==
  { Entry(Some("pmgr"), 0, Some(d)) : d \in PmgrDicts }
  \cup { Entry(Some("pmgr"), 0, None), Entry(Some("arm-io"), 0, None), Entry(None, 0, None) }

\* Outcome of run_system_profiler and of the parsing of lines 341-372
Profiles == { "ok", "err", "panic" }

\* ---- IOServiceIterator ---------------------------------------------------------
\* IOObjectRelease on a reference the process holds
IOObjectRelease(R, obj) == CFRelease(R, obj)

\* pub fn new(service_name): the iterator handle is a +1 reference; field
\* pending is what the kernel will still hand out through it.
ServiceIteratorNew(R, answer) ==
  IF answer.rc # 0 THEN [R |-> R, it |-> None]
  ELSE [R |-> CFCreate(R, "iterator"),
        it |-> Some([existing |-> R.nextId, pending |-> answer.entries, fetched |-> <<>>])]

\* fn next(&mut self): IOIteratorNext hands out a +1 reference to the next
\* entry, or zero; field zero tells whether it was zero.
ServiceIteratorNext(R, it) ==
  IF it.pending = <<>> THEN [R |-> R, it |-> it, item |-> None, zero |-> TRUE]
  ELSE LET e == Head(it.pending)
           R1 == CFCreate(R, "entry")
           it1 == [it EXCEPT !.pending = Tail(@), !.fetched = Append(@, R.nextId)]
       IN  IF ~IsSome(e.name) THEN [R |-> R1, it |-> it1, item |-> None, zero |-> FALSE]
           ELSE [R |-> R1, it |-> it1, zero |-> FALSE,
                 item |-> Some([id |-> R.nextId, name |-> Unwrap(e.name),
                                open |-> e.open, props |-> e.props])]

\* impl Drop for IOServiceIterator
ServiceIteratorDrop(R, it) == IOObjectRelease(R, it.existing)

Probing == registry.made < MaxProbes /\ iter.state \in {"none", "failed", "dropped"}

\* The iterator driven step by step, as a for loop drives it.
IOServiceIteratorNew(answer) ==
  /\ Probing
  /\ \E N \in {ServiceIteratorNew([registry EXCEPT !.made = @ + 1], answer)} :
       /\ registry' = N.R
       /\ iter' = IF IsSome(N.it)
                    THEN [state |-> "live", rc |-> answer.rc, it |-> Unwrap(N.it),
                          yielded |-> <<>>, ended |-> FALSE, zero |-> FALSE]
                    ELSE [state |-> "failed", rc |-> answer.rc]
  /\ UNCHANGED <<ioVars, smcVars, hidVars, svcLast, pureVars, iterVars, newVars>>

IOServiceIteratorNext ==
  /\ iter.state = "live"
  /\ ~iter.ended
  /\ \E X \in {ServiceIteratorNext(registry, iter.it)} :
       /\ registry' = X.R
       /\ iter' = [iter EXCEPT !.it = X.it,
                               !.yielded = IF IsSome(X.item)
                                             THEN Append(@, <<Unwrap(X.item).id, Unwrap(X.item).name>>)
                                             ELSE @,
                               !.ended = ~IsSome(X.item),
                               !.zero = X.zero]
  /\ UNCHANGED <<ioVars, smcVars, hidVars, svcLast, pureVars, iterVars, newVars>>

DropIOServiceIterator ==
  /\ iter.state = "live"
  /\ registry' = ServiceIteratorDrop(registry, iter.it)
  /\ iter' = [iter EXCEPT !.state = "dropped"]
  /\ UNCHANGED <<ioVars, smcVars, hidVars, svcLast, pureVars, iterVars, newVars>>

\* ---- pub fn new() -> WithError<SMC> ---------------------------------------------
\* IOServiceOpen that returned zero: the connection is a kernel object the
\* process now holds.
IOServiceOpen(R) == CFCreate(R, "connect")

\* IOServiceClose: closes the connection the id names; on the null port
\* (id 0) it returns an error and closes nothing.
IOServiceClose(R, conn) == IF conn = 0 THEN R ELSE CFRelease(R, conn)

\* The for loop of lines 144-151; T holds the registry, the iterator, conn,
\* the connections opened so far and the status of the call.
RECURSIVE SmcNewLoop(_)
SmcNewLoop(T) ==
  LET X == ServiceIteratorNext(T.R, T.it)
      T1 == [T EXCEPT !.R = X.R, !.it = X.it]
  IN  IF ~IsSome(X.item) THEN [T1 EXCEPT !.ret = Ok([conn |-> T.conn, keys |-> <<>>])]
      ELSE IF Unwrap(X.item).name # "AppleSMCKeysEndpoint" THEN SmcNewLoop(T1)
      ELSE IF Unwrap(X.item).open # 0
        THEN [T1 EXCEPT !.ret = Err([kind |-> "open", code |-> Unwrap(X.item).open])]
        ELSE SmcNewLoop([T1 EXCEPT !.R = IOServiceOpen(@), !.conn = X.R.nextId,
                                   !.opened = Append(@, X.R.nextId)])

SmcNew(R, answer) ==
  LET N == ServiceIteratorNew(R, answer)
  IN  IF ~IsSome(N.it)
        THEN [R |-> R, ret |-> Err([kind |-> "not_found", code |-> answer.rc]),
              existing |-> None, fetched |-> <<>>, opened |-> <<>>]
        ELSE LET T == SmcNewLoop([R |-> N.R, it |-> Unwrap(N.it), conn |-> 0,
                                  opened |-> <<>>, ret |-> None])
             IN  [R |-> ServiceIteratorDrop(T.R, T.it), ret |-> T.ret,
                  existing |-> Some(T.it.existing), fetched |-> T.it.fetched,
                  opened |-> T.opened]

SMCNew(answer) ==
  /\ Probing
  /\ \E T \in {SmcNew([registry EXCEPT !.made = @ + 1], answer)} :
       /\ registry' = T.R
       /\ svcLast' = [op |-> "SMC::new", status |-> "returned", ret |-> T.ret,
                      answer |-> answer,
                      existing |-> T.existing, fetched |-> T.fetched,
                      opened |-> T.opened, dropped |-> FALSE, closed |-> {}]
  /\ UNCHANGED <<ioVars, smcVars, hidVars, iter, pureVars, iterVars, newVars>>

\* impl Drop for SMC, on the client the last SMC::new returned; field closed
\* holds the connections the drop closed.
DropSMC ==
  /\ svcLast.op = "SMC::new"
  /\ svcLast.ret.ok
  /\ ~svcLast.dropped
  /\ registry' = IOServiceClose(registry, svcLast.ret.val.conn)
  /\ svcLast' = [svcLast EXCEPT !.dropped = TRUE,
                                !.closed = registry.alive \ registry'.alive]
  /\ UNCHANGED <<ioVars, smcVars, hidVars, iter, pureVars, iterVars, newVars>>

\* ---- pub fn get_soc_info --------------------------------------------------------
\* SocInfo::default(), as far as the frequency tables go
NoFreqs == [ecpu_freqs |-> <<>>, pcpu_freqs |-> <<>>, gpu_freqs |-> <<>>]

\* (mutant) an empty GPU table counts too
IncompleteAnyList(info) ==
  info.ecpu_freqs = <<>> \/ info.pcpu_freqs = <<>> \/ info.gpu_freqs = <<>>

\* info.ecpu_freqs.is_empty() || info.pcpu_freqs.is_empty()
Incomplete(info) == info.ecpu_freqs = <<>> \/ info.pcpu_freqs = <<>>

\* The for loop of lines 375-385; T holds the registry R, the CoreFoundation
\* heap H, the iterator, info and the status of the call.
RECURSIVE SocScan(_)
SocScan(T) ==
  LET X == ServiceIteratorNext(T.R, T.it)
      T1 == [T EXCEPT !.R = X.R, !.it = X.it]
  IN  IF ~IsSome(X.item) THEN [T1 EXCEPT !.status = "scanned"]
      ELSE IF Unwrap(X.item).name # "pmgr" THEN SocScan(T1)
      ELSE IF ~IsSome(Unwrap(X.item).props) THEN [T1 EXCEPT !.status = "no_props"]
      ELSE LET item == Unwrap(Unwrap(X.item).props)
               T2 == [T1 EXCEPT !.H = CFCreate(@, "props")]
               e == GetDvfsMhz(item, "voltage-states1-sram")
               p == GetDvfsMhz(item, "voltage-states5-sram")
               g == GetDvfsMhz(item, "voltage-states9")
           IN  IF ~IsSome(e) \/ ~IsSome(p) \/ ~IsSome(g) THEN [T2 EXCEPT !.status = "panicked"]
               ELSE SocScan([T2 EXCEPT !.H = CFRelease(@, T1.H.nextId),
                                       !.info = [ecpu_freqs |-> Unwrap(e)[2],
                                                 pcpu_freqs |-> Unwrap(p)[2],
                                                 gpu_freqs |-> Unwrap(g)[2]]])

\* The whole call.  Field scanned tells whether the call got to the test of
\* line 387.
GetSocInfo(R, H, profile, answer) ==
  LET out == [R |-> R, H |-> H, status |-> "returned", ret |-> None, scanned |-> FALSE,
              info |-> NoFreqs, existing |-> None, fetched |-> <<>>]
  IN  IF profile = "panic" THEN [out EXCEPT !.status = "panicked"]
      ELSE IF profile = "err" THEN [out EXCEPT !.ret = Err([kind |-> "profiler", code |-> 0])]
      ELSE LET N == ServiceIteratorNew(R, answer)
           IN  IF ~IsSome(N.it)
                 THEN [out EXCEPT !.ret = Err([kind |-> "not_found", code |-> answer.rc])]
                 ELSE LET T == SocScan([R |-> N.R, H |-> H, it |-> Unwrap(N.it),
                                        info |-> NoFreqs, status |-> "scanning"])
                          left == [out EXCEPT !.R = ServiceIteratorDrop(T.R, T.it), !.H = T.H,
                                              !.info = T.info,
                                              !.existing = Some(T.it.existing),
                                              !.fetched = T.it.fetched]
                      IN  IF T.status = "panicked" THEN [left EXCEPT !.status = "panicked"]
                          ELSE IF T.status = "no_props"
                            THEN [left EXCEPT !.ret = Err([kind |-> "properties", code |-> 0])]
                          ELSE IF Incomplete(T.info)
                            THEN [left EXCEPT !.scanned = TRUE,
                                              !.ret = Err([kind |-> "incomplete", code |-> 0])]
                            ELSE [left EXCEPT !.scanned = TRUE, !.ret = Ok(T.info)]

get_soc_info(profile, answer) ==
  /\ Probing
  /\ \E T \in {GetSocInfo([registry EXCEPT !.made = @ + 1], Heap, profile, answer)} :
       /\ registry' = T.R
       /\ nextId' = T.H.nextId
       /\ kindOf' = T.H.kindOf
       /\ alive' = T.H.alive
       /\ faults' = T.H.faults
       /\ svcLast' = [op |-> "get_soc_info", status |-> T.status, ret |-> T.ret,
                      profile |-> profile, answer |-> answer,
                      scanned |-> T.scanned, info |-> T.info,
                      existing |-> T.existing, fetched |-> T.fetched]
  /\ UNCHANGED <<engVars, smcVars, hidVars, iter, pureVars, iterVars, newVars>>

NextServices ==
  \/ \E a \in MatchAnswers(StepEntries) : IOServiceIteratorNew(a)
  \/ IOServiceIteratorNext
  \/ DropIOServiceIterator
  \/ \E a \in MatchAnswers(SmcEntries) : SMCNew(a)
  \/ DropSMC
  \/ \E a \in MatchAnswers(SocEntries) : get_soc_info("ok", a)
  \/ \E p \in Profiles \ {"ok"} : get_soc_info(p, [rc |-> 0, entries |-> <<>>])

SpecServices == Init /\ [][NextServices]_vars

\* ==== IOReportIterator: the items of one delta sample ========================

\* ---- the environment's small input sets ----------------------------------
\* One entry of the "IOReportChannels" array: what IOReportChannelGetGroup,
\* ..GetSubGroup, ..GetChannelName and ..GetUnitLabel return for it (None:
\* null; else the bytes of the CFString).
Channel(g, s, c, u) == [group |-> g, subgroup |-> s, channel |-> c, unit |-> u]
\* "C" / "E" / "P" with unit "mJ"; every name null with unit " nJ "; a null
\* subgroup; a group that does not fit the conversion buffer; a null unit.
Channels ==
  { Channel(Some(<<67>>), Some(<<69>>), Some(<<80>>), Some(<<109, 74>>)),
    Channel(None, None, None, Some(<<32, 110, 74, 32>>)),
    Channel(Some(<<67>>), None, Some(<<80>>), Some(<<117, 74>>)),
    Channel(Some(LongName), Some(<<69>>), Some(<<80>>), Some(<<109, 74>>)),
    Channel(Some(<<67>>), Some(<<69>>), Some(<<80>>), None) }
\* The value of "IOReportChannels" in the delta (None: the key is missing).
ChannelArrays ==
  {None} \cup { Some(a) : a \in UNION { [1..n -> Channels] : n \in 0..MaxItems } }
\* What CFStringGetCString does with a null string: the process dies, the
\* call reports failure, or it reports success with an empty buffer.
NullStringOutcomes == {"abort", "fail", "empty"}

\* (mutant) a null result is handed to from_cfstr's failure path
GetCfStringNullFails(x) == IF x = None THEN None ELSE from_cfstr(Unwrap(x))

\* fn get_cf_string: null becomes String::new(), anything else goes through
\* from_cfstr (None: from_cfstr panicked)
get_cf_string(x) == IF x = None THEN Some(<<>>) ELSE from_cfstr(Unwrap(x))

cfio_get_group(item) == get_cf_string(item.group)
cfio_get_subgroup(item) == get_cf_string(item.subgroup)
cfio_get_channel(item) == get_cf_string(item.channel)

\* str::trim: leading and trailing whitespace removed
Whitespace == {9, 10, 11, 12, 13, 32}
RECURSIVE TrimStart(_)
TrimStart(str) ==
  IF str # <<>> /\ Head(str) \in Whitespace THEN TrimStart(Tail(str)) ELSE str
RECURSIVE TrimEnd(_)
TrimEnd(str) ==
  IF str # <<>> /\ str[Len(str)] \in Whitespace
    THEN TrimEnd(SubSeq(str, 1, Len(str) - 1)) ELSE str
Trim(str) == TrimEnd(TrimStart(str))

\* from_cfstr(IOReportChannelGetUnitLabel(item)): the label is not checked
\* for null (None: panic); ub is what the conversion of a null label does
\* when the process survives it
UnitLabel(item, ub) ==
  IF item.unit # None THEN from_cfstr(Unwrap(item.unit))
  ELSE IF ub = "fail" THEN None
  ELSE Some(<<>>)

\* IOReportIterator::new(data): the struct of lines 160-165; array is the
\* value of "IOReportChannels" in data
ChannelIterator(data, array) ==
  [sample |-> data, index |-> 0, items |-> array, items_size |-> Len(array)]

\* (mutant) the cursor is left where it was
AdvanceStuck(index) == index

\* self.index += 1
Advance(index) == index + 1

\* fn next(&mut self): the iterator after the call, how the call ended and
\* what it returned.  The payload reference of an item is the array entry
\* it points to, inside the sample that owns the array.
IteratorNext(it, ub) ==
  IF it.index >= it.items_size
    THEN [it |-> it, status |-> "returned", ret |-> None]
  ELSE LET item     == it.items[it.index + 1]
           group    == cfio_get_group(item)
           subgroup == cfio_get_subgroup(item)
           channel  == cfio_get_channel(item)
           unit     == UnitLabel(item, ub)
       IN  IF group = None \/ subgroup = None \/ channel = None
             THEN [it |-> it, status |-> "panicked", ret |-> None]
           ELSE IF item.unit = None /\ ub = "abort"
             THEN [it |-> it, status |-> "aborted", ret |-> None]
           ELSE IF unit = None
             THEN [it |-> it, status |-> "panicked", ret |-> None]
           ELSE [it |-> [it EXCEPT !.index = Advance(@)],
                 status |-> "returned",
                 ret |-> Some([group |-> Unwrap(group),
                               subgroup |-> Unwrap(subgroup),
                               channel |-> Unwrap(channel),
                               unit |-> Trim(Unwrap(unit)),
                               item |-> [sample |-> it.sample, at |-> it.index]])]

\* match unit.as_str() { "mJ" | "uJ" | "nJ" => Ok(val / 1e3 | 1e6 | 1e9),
\* _ => Err(..) }: the power of ten the counter is divided by (None: Err)
EnergyDivisor(unit) ==
  IF unit = <<109, 74>> THEN Some(3)
  ELSE IF unit = <<117, 74>> THEN Some(6)
  ELSE IF unit = <<110, 74>> THEN Some(9)
  ELSE None

\* A caller obtains an iterator: the framework hands out a delta sample and
\* IOReportIterator::new takes it over, panicking on the unwrap when the
\* delta has no "IOReportChannels" (the delta is then never released).
IOReportIteratorNew(array) ==
  /\ chanIter.state = "none"
  /\ LET H == CFCreate(Heap, IF array = None THEN "delta_nochan" ELSE "delta")
     IN  /\ nextId' = H.nextId
         /\ kindOf' = H.kindOf
         /\ alive' = H.alive
         /\ chanIter' = IF array = None THEN [state |-> "failed"]
                        ELSE [state |-> "live"] @@ ChannelIterator(nextId, Unwrap(array))
         /\ iterLast' = [op |-> "new",
                         status |-> IF array = None THEN "panicked" ELSE "returned"]
  /\ UNCHANGED <<faults, engVars, yielded, smcVars, hidVars, svcVars, pureVars, newVars>>

\* One call of next by the owner of the iterator.
IOReportIteratorNext(ub) ==
  /\ chanIter.state = "live"
  /\ LET it == [f \in {"sample", "index", "items", "items_size"} |-> chanIter[f]]
         R  == IteratorNext(it, ub)
     IN  /\ chanIter' = [state |-> IF R.status = "aborted" THEN "aborted" ELSE "live"]
                        @@ R.it
         /\ yielded' = IF IsSome(R.ret) THEN Append(yielded, Unwrap(R.ret)) ELSE yielded
         /\ iterLast' = [op |-> "next", status |-> R.status, before |-> it.index,
                         ret |-> R.ret]
  /\ UNCHANGED <<nextId, kindOf, alive, faults, engVars, smcVars, hidVars, svcVars,
                 pureVars, newVars>>

\* The owner drops the iterator: impl Drop for IOReportIterator.  The items
\* it yielded are values of their own and stay with the caller.
DropIOReportIterator ==
  /\ chanIter.state = "live"
  /\ LET H == IteratorDrop(Heap, chanIter)
     IN  /\ alive' = H.alive
         /\ faults' = H.faults
  /\ chanIter' = [chanIter EXCEPT !.state = "dropped"]
  /\ iterLast' = [op |-> "drop"]
  /\ UNCHANGED <<nextId, kindOf, engVars, yielded, smcVars, hidVars, svcVars,
                 pureVars, newVars>>

\* pub fn cfio_watts(item, unit, duration) on the k-th item the caller holds:
\* IOReportSimpleGetIntegerValue reads the payload, which lives in the sample.
\* cfio_get_residencies and the channel accessors read it the same way.
cfio_watts(k, ub) ==
  /\ chanIter.state \in {"live", "dropped"}
  /\ k \in DOMAIN yielded
  /\ LET H == CFUse(Heap, yielded[k].item.sample)
     IN  /\ ub \in Outcomes(H)
         /\ faults' = H.faults
         /\ chanIter' = IF ub = "abort" THEN [chanIter EXCEPT !.state = "aborted"]
                        ELSE chanIter
         /\ iterLast' = [op |-> "cfio_watts", k |-> k,
                         status |-> IF ub = "abort" THEN "aborted" ELSE "returned",
                         sampleAlive |-> yielded[k].item.sample \in alive,
                         iterator |-> chanIter.state,
                         divisor |-> EnergyDivisor(yielded[k].unit)]
  /\ UNCHANGED <<nextId, kindOf, alive, engVars, yielded, smcVars, hidVars, svcVars,
                 pureVars, newVars>>

NextIterator ==
  \/ \E array \in ChannelArrays : IOReportIteratorNew(array)
  \/ \E ub \in NullStringOutcomes : IOReportIteratorNext(ub)
  \/ DropIOReportIterator
  \/ \E k \in 1..MaxItems, ub \in {"asif", "abort"} : cfio_watts(k, ub)

SpecIterator == Init /\ [][NextIterator]_vars

\* ==== IOReport::new =========================================================

\* ---- the environment's small input sets ----------------------------------
\* The channels argument: (group, subgroup) selectors, the subgroup an Option.
Selectors ==
  { <<>>,
    << <<"Energy Model", None>> >>,
    << <<"CPU Stats", Some("CPU Core Performance States")>> >>,
    << <<"Energy Model", None>>, <<"GPU Stats", Some("GPU Performance States")>> >> }

\* The working state of a call: the heap, the vector of group copies, the
\* number of IOReportCreateSubscription calls and the last value produced.
NewFrame ==
  [nextId |-> nextId, kindOf |-> kindOf, alive |-> alive, faults |-> faults,
   channels |-> <<>>, subsCalls |-> 0, out |-> None]

\* One pass of the loop of lines 118-128: gname and sname are made, the group
\* copy is pushed, gname is released, and sname if there is a subgroup.
ChanStep(L, selector) ==
  LET gname == L.nextId
      L1    == CFCreate(L, "cfstr")
      sname == IF IsSome(selector[2]) THEN Some(L1.nextId) ELSE None
      L2    == IF IsSome(sname) THEN CFCreate(L1, "cfstr") ELSE L1
      chan  == L2.nextId
      L3    == CFCreate(IF IsSome(sname) THEN CFUse(CFUse(L2, gname), Unwrap(sname))
                        ELSE CFUse(L2, gname), "channels")
      L4    == [L3 EXCEPT !.channels = Append(@, chan)]
      L5    == CFRelease(L4, gname)
  IN  IF IsSome(sname) THEN CFRelease(L5, Unwrap(sname)) ELSE L5

\* for (group, subgroup) in items { .. }
RECURSIVE ChanLoop(_, _)
ChanLoop(L, selectors) ==
  IF selectors = <<>> THEN L
  ELSE ChanLoop(ChanStep(L, Head(selectors)), Tail(selectors))

\* for i in 1..channels.len() { IOReportMergeChannels(chan, channels[i], null) }
RECURSIVE MergeLoop(_, _)
MergeLoop(L, i) ==
  IF i > Len(L.channels) THEN L
  ELSE MergeLoop(CFUse(CFUse(L, L.channels[1]), L.channels[i]), i + 1)

\* cfdict_get_val(dict, key): the key string is made, the dictionary is read,
\* the key string is released
DictGetVal(L, dict) ==
  LET key == L.nextId
  IN  CFRelease(CFUse(CFCreate(L, "cfstr"), dict), key)

\* (mutant) the merged dictionary is never looked at
LacksChannelsIgnored(hasChannels) == FALSE

\* cfdict_get_val(chan, "IOReportChannels").is_none()
LacksChannels(hasChannels) == ~hasChannels

\* unsafe fn cfio_get_chan(items): the frame after the call, with the Result
\* in field out; hasChannels says whether the merged dictionary carries the
\* "IOReportChannels" key.
CfioGetChan(L, selectors, hasChannels) ==
  IF selectors = <<>>
    THEN LET c  == L.nextId
             L1 == CFCreate(L, "channels")
             r  == L1.nextId
             L2 == CFCreate(CFUse(CFUse(L1, c), c), "chan")
         IN  [CFRelease(L2, c) EXCEPT !.out = Ok(r)]
  ELSE LET L1   == MergeLoop(ChanLoop(L, selectors), 2)
           chan == L1.nextId
           L2   == CFCreate(CFUse(CFUse(L1, L1.channels[1]), L1.channels[1]), "chan")
           L3   == DictGetVal(CFReleaseAll(L2, L2.channels), chan)
       IN  IF LacksChannels(hasChannels)
             THEN [L3 EXCEPT !.out = Err("Failed to get channels")]
             ELSE [L3 EXCEPT !.out = Ok(chan)]

\* unsafe fn cfio_get_subs(chan): subsNull says whether
\* IOReportCreateSubscription returns null.
CfioGetSubs(L, chan, subsNull) ==
  LET L1 == [CFUse(L, chan) EXCEPT !.subsCalls = @ + 1]
  IN  IF subsNull THEN [L1 EXCEPT !.out = Err("Failed to create subscription")]
      ELSE [CFCreate(L1, "subs") EXCEPT !.out = Ok(L1.nextId)]

\* Ok(Self { subs, chan, prev: None }), or the error of cfio_get_subs; L is
\* the frame after cfio_get_subs
NewEngine(L, chan) ==
  IF ~L.out.ok THEN L
  ELSE [L EXCEPT !.out = Ok([subs |-> L.out.val, chan |-> chan, prev |-> None])]

\* let subs = unsafe { cfio_get_subs(chan)? }, or the error of cfio_get_chan;
\* L is the frame after cfio_get_chan
NewSubs(L, subsNull) ==
  IF ~L.out.ok THEN L
  ELSE NewEngine(CfioGetSubs(L, L.out.val, subsNull), L.out.val)

\* pub fn new(channels): each ? hands the callee's error to the caller
IOReportNewOn(L, selectors, hasChannels, subsNull) ==
  NewSubs(CfioGetChan(L, selectors, hasChannels), subsNull)

\* IOReport::new calls made so far
NewCalls == IF newLast.op = "none" THEN 0 ELSE newLast.n

\* A caller constructs one more engine.
IOReportNew(selectors, hasChannels, subsNull) ==
  /\ NewCalls < MaxEngines
  /\ \E L \in {IOReportNewOn(NewFrame, selectors, hasChannels, subsNull)} :
         /\ nextId' = L.nextId
         /\ kindOf' = L.kindOf
         /\ alive' = L.alive
         /\ faults' = L.faults
         /\ built' = IF L.out.ok THEN Append(built, L.out.val) ELSE built
         /\ newLast' = [op |-> "new", n |-> NewCalls + 1, selectors |-> selectors,
                        hasChannels |-> hasChannels, subsNull |-> subsNull,
                        ret |-> L.out, subsCalls |-> L.subsCalls,
                        made |-> nextId .. (L.nextId - 1)]
  /\ UNCHANGED <<engVars, smcVars, hidVars, svcVars, pureVars, iterVars>>

\* The caller drops the oldest engine it owns: impl Drop for IOReport.
DropBuilt ==
  /\ built # <<>>
  /\ LET F == CFReleaseAll(Heap, DropSequence(Head(built)))
     IN  /\ alive' = F.alive
         /\ faults' = F.faults
  /\ built' = Tail(built)
  /\ newLast' = [op |-> "drop", n |-> NewCalls]
  /\ UNCHANGED <<nextId, kindOf, engVars, smcVars, hidVars, svcVars, pureVars, iterVars>>

NextNew ==
  \/ \E selectors \in Selectors, hasChannels \in BOOLEAN, subsNull \in BOOLEAN :
       IOReportNew(selectors, hasChannels, subsNull)
  \/ DropBuilt

SpecNew == Init /\ [][NextNew]_vars

\* ==== Claims about the IOReport engine (checked under SpecIOReport) =========

Returned == lastCall.op = "get_samples" /\ lastCall.status = "returned"

\* C1: within one get_samples call, the snapshot and timestamp that end record
\* k are the snapshot and timestamp that start record k+1.
C1_ContiguousRecords ==
  Returned =>
    \A k \in 1..(Len(lastCall.intervals) - 1) :
      /\ lastCall.intervals[k].right.id = lastCall.intervals[k + 1].left.id
      /\ lastCall.intervals[k].right.t = lastCall.intervals[k + 1].left.t

C1_Witness ==
  /\ Returned
  /\ Len(lastCall.intervals) = 32
  /\ lastCall.intervals[31].right = lastCall.intervals[32].left

\* C2: a get_samples call that follows another one starts from the last raw
\* snapshot the preceding call captured; only the engine's first get_samples
\* call captures a fresh initial snapshot, so it creates clamp(n,1,32)+1 raw
\* samples and every later call clamp(n,1,32).
C2_CarriedAcrossCalls ==
  Returned =>
    LET first == ~IsSome(lastCall.snapBefore)
        c == IF lastCall.count < 1 THEN 1
             ELSE IF lastCall.count > 32 THEN 32 ELSE lastCall.count
    IN  /\ ~first => lastCall.intervals[1].left = Unwrap(lastCall.snapBefore)
        /\ lastCall.rawCreated = IF first THEN c + 1 ELSE c

\* C3: the list get_samples returns has exactly clamp(n, 1, 32) entries.
C3_ClampedLength ==
  Returned =>
    Len(lastCall.samples) = (IF lastCall.count < 1 THEN 1
                             ELSE IF lastCall.count > 32 THEN 32 ELSE lastCall.count)

C3_Witness ==
  /\ Returned
  /\ lastCall.count = 100
  /\ Len(lastCall.samples) = 32

Elapsed(samples) == [k \in DOMAIN samples |-> samples[k].elapsed]

C5_ElapsedClamped ==
  Returned =>
    \A k \in DOMAIN lastCall.samples :
      LET ms == (capTime[lastCall.intervals[k].right.id]
                   - capTime[lastCall.intervals[k].left.id]) \div TicksPerMs
      IN  /\ lastCall.samples[k].elapsed = (IF ms < 1 THEN 1 ELSE ms)
          /\ lastCall.samples[k].elapsed # 0

C5_Witness ==
  /\ Returned
  /\ \E k \in DOMAIN lastCall.samples :
       /\ capTime[lastCall.intervals[k].right.id] = capTime[lastCall.intervals[k].left.id]
       /\ lastCall.samples[k].elapsed = 1

\* C6: once every returned iterator and then the engine have been dropped,
\* every handle created has been released.
C6_NoLeak ==
  (engState = "dropped" /\ held = <<>>) => alive = {}

\* C7 as claimed: Drop for IOReport releases the carried snapshot (if any),
\* then the subscription, then the channel descriptor.
C7_DropOrderPrevSubsChan ==
  engState = "dropped" =>
    dropLog = (IF IsSome(eng.prev) THEN <<"raw">> ELSE <<>>) \o <<"subs", "chan">>

\* C7 as amended: Drop for IOReport releases the channel descriptor, then the
\* subscription, then the carried snapshot (if any).
C7_DropOrderChanSubsPrev ==
  engState = "dropped" =>
    dropLog = <<"chan", "subs">> \o (IF IsSome(eng.prev) THEN <<"raw">> ELSE <<>>)

C7_Witness ==
  /\ engState = "dropped"
  /\ IsSome(eng.prev)
  /\ Len(dropLog) = 3

\* ==== Claims about the SMC client (checked under SpecSMC) ===================

SmcOp == smcLast.op \in {"read_key_info", "read_val"}

Commands(issued) == {issued[i].data8 : i \in DOMAIN issued}

\* C8: once read_key_info(k) or read_val(k) has succeeded, every later
\* read_key_info(k) or read_val(k) works with the metadata of that first
\* success and sends no command-9 request.
C8_KeyInfoIdempotent ==
  (SmcOp /\ IsSome(smcLast.firstBefore)) =>
    /\ 9 \notin Commands(smcLast.issued)
    /\ smcLast.info = smcLast.firstBefore
    /\ smcLast.op = "read_key_info" =>
         (smcLast.ret.ok /\ smcLast.ret.val = Unwrap(smcLast.firstBefore))

C8_Witness ==
  /\ smcLast.op = "read_val"
  /\ smcLast.key = <<84, 67, 48, 80>>
  /\ IsSome(smcLast.firstBefore)
  /\ Commands(smcLast.issued) = {5}
  /\ smcLast.ret.ok

\* C9: a read_val whose command-9 and command-5 exchanges both succeed returns
\* a payload of exactly data_size bytes, whatever data_size the metadata
\* response carried.
C9_PayloadLenIsDataSize ==
  (smcLast.op = "read_val" /\ 9 \in Commands(smcLast.issued) /\ smcLast.valOk) =>
    /\ ~smcLast.panicked
    /\ smcLast.ret.ok
    /\ Len(smcLast.ret.val.data) = Unwrap(smcLast.info).data_size

\* C10: read_key_info and read_val on a key whose length is not 4 fail with
\* the invalid-key error, send nothing to the kernel and leave the cache as
\* it was.
C10_InvalidKeyRejected ==
  (SmcOp /\ Len(smcLast.key) # 4) =>
    /\ ~smcLast.ret.ok
    /\ smcLast.ret.err.kind = "invalid_key"
    /\ smcLast.issued = <<>>
    /\ keys = smcLast.keysBefore

C10_Witness ==
  /\ smcLast.op = "read_val"
  /\ smcLast.key = <<65, 66, 67, 68, 69>>
  /\ ~smcLast.ret.ok
  /\ smcLast.ret.err.kind = "invalid_key"
  /\ keys # <<>>

\* The exchange that decided an operation's result is its last one.
LastAnswer == smcLast.answers[Len(smcLast.answers)]

Exchanged ==
  /\ smcLast.op \in {"read_key_info", "read_val", "key_by_index"}
  /\ smcLast.answers # <<>>

\* C11: every exchange is classified by precedence: a non-zero kernel code is
\* the transport error whatever the result byte says; otherwise result 132 is
\* key-not-found; otherwise a non-zero result is the protocol error carrying
\* it; the operation goes on past an exchange only when both are 0.
C11_ReadPrecedence ==
  Exchanged =>
    /\ \A i \in 1..(Len(smcLast.answers) - 1) :
         smcLast.answers[i].rs = 0 /\ smcLast.answers[i].result = 0
    /\ LastAnswer.rs # 0 =>
         smcLast.ret = Err([kind |-> "transport", code |-> LastAnswer.rs])
    /\ (LastAnswer.rs = 0 /\ LastAnswer.result = 132) =>
         smcLast.ret = Err([kind |-> "key_not_found", code |-> 0])
    /\ (LastAnswer.rs = 0 /\ LastAnswer.result \notin {0, 132}) =>
         smcLast.ret = Err([kind |-> "protocol", code |-> LastAnswer.result])
    /\ (LastAnswer.rs = 0 /\ LastAnswer.result = 0) =>
         (smcLast.panicked \/ smcLast.ret.ok)

C11_Witness ==
  /\ smcLast.op = "read_val"
  /\ Len(smcLast.answers) = 2
  /\ LastAnswer.rs # 0
  /\ LastAnswer.result = 132
  /\ smcLast.ret = Err([kind |-> "transport", code |-> LastAnswer.rs])

\* ==== Claims about read_all_keys (checked under SpecKeys) ====================

RECURSIVE KeysReadOk(_)
KeysReadOk(visits) ==
  IF visits = <<>> THEN <<>>
  ELSE (IF Head(visits).ok THEN <<Head(visits).key>> ELSE <<>>) \o KeysReadOk(Tail(visits))

\* C12: when the "#KEY" read has yielded the count N and the kernel answers
\* every key_by_index with a key, read_all_keys visits the indices 0 .. N-1
\* in order and returns exactly the keys whose read_val succeeded, in that
\* order.
C12_AllReadableKeys ==
  (/\ smcLast.op = "read_all_keys"
   /\ IsSome(smcLast.count)
   /\ \A i \in DOMAIN smcLast.issued :
        smcLast.issued[i].data8 = CmdByIndex => SmcRead(smcLast.answers[i]).ok) =>
    /\ ~smcLast.panicked
    /\ smcLast.ret.ok
    /\ [k \in DOMAIN smcLast.visits |-> smcLast.visits[k].index]
         = [k \in 1..Unwrap(smcLast.count) |-> k - 1]
    /\ smcLast.ret.val = KeysReadOk(smcLast.visits)

\* ==== Claims about the FourCC conversions (checked under SpecFourCC) =========

\* C13: the code of a key of 4 ASCII bytes, written out as big-endian bytes,
\* is the key again; so two different keys never have the same code.
C13_FourCCRoundTrip ==
  fourcc.op = "encoded" =>
    /\ fourcc.bytes = fourcc.key
    /\ (fourcc.key # fourcc.other => fourcc.code # fourcc.otherCode)

C13_Witness ==
  /\ fourcc.op = "encoded"
  /\ fourcc.key = <<65, 48, 35, 127>>
  /\ fourcc.other = <<65, 48, 48, 65>>
  /\ fourcc.code = U32(16688, 9087)

\* ==== Claims about the HID scanner (checked under SpecHID) ===================

Scanned == hidLast.op = "get_metrics" /\ hidLast.status = "returned"

\* The readings of list l that carry name n, in the order of l
Named(l, n) == SelectSeq(l, LAMBDA r : r.name = n)

\* C14: the list get_metrics returns is sorted ascending by name and holds,
\* for every name, the readings collected under that name in the order in
\* which they were collected (so it is a permutation, and the sort is stable).
C14_SortedStable ==
  Scanned =>
    /\ \A i, j \in DOMAIN hidLast.ret :
         i < j => ~StrLess(hidLast.ret[j].name, hidLast.ret[i].name)
    /\ Len(hidLast.ret) = Len(hidLast.items)
    /\ \A k \in DOMAIN hidLast.items :
         Named(hidLast.ret, hidLast.items[k].name) = Named(hidLast.items, hidLast.items[k].name)

C14_Witness ==
  /\ Scanned
  /\ hidLast.items = <<[name |-> <<98>>, temp |-> 1], [name |-> <<97>>, temp |-> 1]>>
  /\ hidLast.ret = <<[name |-> <<97>>, temp |-> 1], [name |-> <<98>>, temp |-> 1]>>

\* The services array of the last call (empty when there was none)
Scannable ==
  IF hidLast.answers.system /\ IsSome(hidLast.answers.services)
    THEN Unwrap(hidLast.answers.services) ELSE <<>>

Complete(svc) == svc.sc /\ IsSome(svc.product) /\ IsSome(svc.event)

\* C15: a get_metrics call that returns has collected one reading for every
\* service whose reference, "Product" property and event are all non-null, in
\* the order of the array, and none for the others; without a services array
\* the result is empty.
C15_OnePerCompleteService ==
  Scanned =>
    LET complete == SelectSeq(Scannable, Complete)
    IN  /\ Len(hidLast.ret) = Len(complete)
        /\ hidLast.items = [k \in DOMAIN complete |->
                              [name |-> UntilNul(Unwrap(complete[k].product)),
                               temp |-> Unwrap(complete[k].event)]]

C15_Witness ==
  /\ Scanned
  /\ Len(Scannable) = 2
  /\ ~Complete(Scannable[1])
  /\ Scannable[1].sc
  /\ Complete(Scannable[2])
  /\ Len(hidLast.ret) = 1

\* C16: the scanner has released every object it got from a Create or Copy
\* function: those of a get_metrics call when the call is over, those of new
\* when the scanner has been dropped; and none of them twice.
C16_ReleasedOnce ==
  /\ hidLast.op = "get_metrics" =>
       \A h \in hidLast.made : h \notin alive /\ h \notin faults
  /\ hid.state = "dropped" =>
       \A h \in hid.made : h \notin alive /\ h \notin faults

\* ==== Claims about the DVFS decoder (checked under SpecDvfs) =================

Decoded == dvfs.op = "decoded" /\ dvfs.key \in DOMAIN dvfs.dict

Blob == dvfs.dict[dvfs.key]

\* The number whose digits in base 256 are bytes (most significant first),
\* divided by d: schoolbook division, for a quotient that fits an integer.
RECURSIVE QuotientBE(_, _, _, _)
QuotientBE(bytes, d, q, r) ==
  IF bytes = <<>> THEN q
  ELSE LET cur == r * 256 + Head(bytes)
       IN  QuotientBE(Tail(bytes), d, q * 256 + (cur \div d), cur % d)

Reversed(b) == [i \in 1..Len(b) |-> b[Len(b) + 1 - i]]

\* C19: for a blob of L bytes both lists have floor(L / 8) elements; the
\* frequency of record i is the little-endian u32 at its first four bytes
\* divided once by 1,000,000, the voltage the little-endian u32 at its last
\* four; bytes after the last full record are ignored.
C19_DvfsDecode ==
  Decoded =>
    LET n == Len(Blob) \div 8
        volts == Unwrap(dvfs.ret)[1]
        freqs == Unwrap(dvfs.ret)[2]
        word(i, at) == Reversed(SubSeq(Blob, 8 * (i - 1) + at, 8 * (i - 1) + at + 3))
    IN  /\ Len(volts) = n
        /\ Len(freqs) = n
        /\ \A i \in 1..n :
             /\ freqs[i].hi = 0
             /\ freqs[i].lo = QuotientBE(word(i, 1), 1000000, 0, 0)
             /\ ToBeBytes(volts[i]) = word(i, 5)

C19_Witness ==
  /\ Decoded
  /\ Len(Blob) = 23
  /\ Unwrap(dvfs.ret)[2] = <<U32(0, 4294), U32(0, 600)>>
  /\ Unwrap(dvfs.ret)[1] = <<U32(32768, 1), U32(0, 900)>>

\* ==== Claims about the service iterator and its callers (SpecServices) =======

\* C17: construction fails exactly when the matching call returns non-zero;
\* the iterator has yielded a pair for every entry id IOIteratorNext has
\* handed out, in that order, and has ended only on a zero entry id.
C17_YieldsUntilZero ==
  /\ iter.state # "none" => (iter.state = "failed" <=> iter.rc # 0)
  /\ iter.state \in {"live", "dropped"} =>
       /\ [k \in DOMAIN iter.yielded |-> iter.yielded[k][1]] = iter.it.fetched
       /\ iter.ended => iter.zero

Called == svcLast.op \in {"SMC::new", "get_soc_info"}

Released(obj) == obj \notin registry.alive /\ obj \notin registry.faults

\* C18: when SMC::new or get_soc_info is over, every entry id its iterator
\* handed out has been released once, and so has the iterator handle; a
\* dropped iterator has released its own handle and no entry id.
C18_EntriesReleased ==
  /\ Called =>
       /\ \A k \in DOMAIN svcLast.fetched : Released(svcLast.fetched[k])
       /\ IsSome(svcLast.existing) => Released(Unwrap(svcLast.existing))
  /\ iter.state = "dropped" =>
       /\ Released(iter.it.existing)
       /\ \A k \in DOMAIN iter.it.fetched : iter.it.fetched[k] \in registry.alive

\* C20: a get_soc_info call that gets past the scan returns the
\* incomplete-SoC error exactly when the efficiency-CPU or the performance-CPU
\* frequency list is empty, and the SocInfo otherwise, whatever the GPU list.
C20_IncompleteIffCpuListEmpty ==
  (svcLast.op = "get_soc_info" /\ svcLast.scanned) =>
    IF svcLast.info.ecpu_freqs = <<>> \/ svcLast.info.pcpu_freqs = <<>>
      THEN svcLast.ret = Err([kind |-> "incomplete", code |-> 0])
      ELSE svcLast.ret = Ok(svcLast.info)

C20_Witness ==
  /\ svcLast.op = "get_soc_info"
  /\ svcLast.scanned
  /\ svcLast.ret.ok
  /\ svcLast.info.gpu_freqs = <<>>
  /\ svcLast.info.ecpu_freqs = <<U32(0, 600)>>

\* ==== Claims about the channel iterator (checked under SpecIterator) =========

\* An iterator exists (it may since have been dropped, or the process died).
Iterating == chanIter.state \in {"live", "dropped", "aborted"}

\* C21: an iterator over an array of n entries yields the entries in order,
\* one item per entry: the cursor stays within 0..n and equals the number of
\* items yielded so far, the k-th item yielded points to array entry k-1 of
\* the iterator's own sample, a call of next that returns gives None exactly
\* when the cursor has reached n, it moves the cursor forward by one when it
\* yields and leaves it alone when it gives None, and no call moves the
\* cursor back.
C21_SinglePass ==
  /\ Iterating =>
       /\ chanIter.index \in 0..chanIter.items_size
       /\ Len(yielded) = chanIter.index
       /\ \A k \in DOMAIN yielded :
            yielded[k].item = [sample |-> chanIter.sample, at |-> k - 1]
  /\ iterLast.op = "next" =>
       /\ chanIter.index >= iterLast.before
       /\ iterLast.status = "returned" =>
            /\ (iterLast.ret = None) <=> (iterLast.before = chanIter.items_size)
            /\ chanIter.index = iterLast.before + (IF IsSome(iterLast.ret) THEN 1 ELSE 0)

\* Both entries of a two-entry array were yielded and the next call gave None.
C21_Witness ==
  /\ chanIter.state = "live"
  /\ chanIter.items_size = 2
  /\ Len(yielded) = 2
  /\ iterLast.op = "next"
  /\ iterLast.status = "returned"
  /\ iterLast.ret = None

\* Can from_cfstr convert what the accessor returned (null is never passed on)?
Convertible(x) == x = None \/ Len(Unwrap(x)) < CStringBufLen

\* What an item's field must be for what the accessor returned.
FieldOf(x) == IF x = None THEN <<>> ELSE UntilNul(Unwrap(x))

\* C22: in every item yielded, group, subgroup and channel are strings, the
\* empty string where the accessor returned null; and a call of next on an
\* entry whose strings can all be converted and whose unit label is not null
\* yields the item and moves on to the next entry, whichever of the three
\* accessors return null.
C22_NullIsEmpty ==
  /\ Iterating =>
       \A k \in DOMAIN yielded :
         k \in DOMAIN chanIter.items =>
           /\ yielded[k].group = FieldOf(chanIter.items[k].group)
           /\ yielded[k].subgroup = FieldOf(chanIter.items[k].subgroup)
           /\ yielded[k].channel = FieldOf(chanIter.items[k].channel)
  /\ (iterLast.op = "next" /\ iterLast.before < chanIter.items_size) =>
       LET e == chanIter.items[iterLast.before + 1]
       IN  (/\ Convertible(e.group) /\ Convertible(e.subgroup) /\ Convertible(e.channel)
            /\ e.unit # None /\ Convertible(e.unit)) =>
             /\ iterLast.status = "returned"
             /\ IsSome(iterLast.ret)
             /\ chanIter.index = iterLast.before + 1

\* The entry whose three accessors return null was yielded with three empty
\* strings, and the entry after it was yielded too.
C22_Witness ==
  /\ Iterating
  /\ Len(yielded) = 2
  /\ chanIter.items[1].group = None
  /\ chanIter.items[1].subgroup = None
  /\ chanIter.items[1].channel = None
  /\ yielded[1].group = <<>>
  /\ yielded[1].subgroup = <<>>
  /\ yielded[1].channel = <<>>
  /\ iterLast.op = "next"
  /\ iterLast.before = 1
  /\ IsSome(iterLast.ret)

\* C26: whenever the payload reference of an item is read, the sample that
\* owns the payload has not been released: no item is read after the
\* iterator that yielded it was dropped.
C26_NoItemOutlivesSample ==
  iterLast.op = "cfio_watts" =>
    /\ iterLast.sampleAlive
    /\ iterLast.iterator = "live"

\* ==== Claims about IOReport::new (checked under SpecNew) ======================

\* C23: IOReport::new with a non-empty selector list fails with the
\* channel-lookup error exactly when the merged dictionary lacks
\* "IOReportChannels", and then IOReportCreateSubscription is never called;
\* otherwise it calls it once and fails with the subscription error exactly
\* when it returns null; otherwise it returns an engine that holds the
\* subscription and the descriptor the call made, with no previous snapshot.
C23_ErrorPrecedence ==
  (newLast.op = "new" /\ newLast.selectors # <<>>) =>
    /\ (~newLast.ret.ok /\ newLast.ret.err = "Failed to get channels")
         <=> ~newLast.hasChannels
    /\ ~newLast.hasChannels => newLast.subsCalls = 0
    /\ newLast.hasChannels =>
         /\ newLast.subsCalls = 1
         /\ (~newLast.ret.ok /\ newLast.ret.err = "Failed to create subscription")
              <=> newLast.subsNull
         /\ ~newLast.subsNull =>
              /\ newLast.ret.ok
              /\ newLast.ret.val.prev = None
              /\ {newLast.ret.val.subs, newLast.ret.val.chan} \subseteq newLast.made
              /\ kindOf[newLast.ret.val.subs] = "subs"
              /\ kindOf[newLast.ret.val.chan] = "chan"
              /\ built[Len(built)] = newLast.ret.val

\* Two selectors, a merged dictionary without "IOReportChannels", and a
\* framework that would also have refused the subscription.
C23_Witness ==
  /\ newLast.op = "new"
  /\ Len(newLast.selectors) = 2
  /\ ~newLast.hasChannels
  /\ newLast.subsNull
  /\ ~newLast.ret.ok
  /\ newLast.ret.err = "Failed to get channels"
  /\ newLast.subsCalls = 0

\* C24: after every IOReport::new call no handle was released twice, every
\* intermediate dictionary and string the call made has been released, and
\* what is left of the handles it made is exactly what the returned engine
\* holds: nothing at all when the call failed.
C24_NothingLeftBehind ==
  newLast.op = "new" =>
    /\ faults = {}
    /\ \A id \in newLast.made : kindOf[id] \in {"channels", "cfstr"} => id \notin alive
    /\ newLast.made \cap alive =
         IF newLast.ret.ok THEN {newLast.ret.val.subs, newLast.ret.val.chan} ELSE {}

\* ==== More claims about the SMC client (checked under SpecSMC) ================

\* The exchanges of the last operation that asked the kernel for the metadata
\* of FourCC k and got it.
InfoObtained(k) ==
  { i \in DOMAIN smcLast.issued :
      /\ smcLast.issued[i].data8 = CmdKeyInfo
      /\ smcLast.issued[i].key = k
      /\ SmcRead(smcLast.answers[i]).ok }

\* C25: every operation leaves the entries the cache had as they were; the
\* only entry an operation can add is that of the key it was asked about,
\* holding the metadata of a successful command-9 response of that very
\* operation; key_by_index, an operation on a key of the wrong length and an
\* operation whose command-9 exchange failed leave the cache as it was.
C25_CacheOnlyGrows ==
  smcLast.op # "none" =>
    /\ \A k \in DOMAIN smcLast.keysBefore :
         k \in DOMAIN keys /\ keys[k] = smcLast.keysBefore[k]
    /\ \A k \in (DOMAIN keys) \ (DOMAIN smcLast.keysBefore) :
         /\ smcLast.op \in {"read_key_info", "read_val"}
         /\ k = FourCC(smcLast.key)
         /\ \E i \in InfoObtained(k) : keys[k] = smcLast.answers[i].key_info
    /\ smcLast.op = "key_by_index" => keys = smcLast.keysBefore
    /\ ~KeyLengthOk(smcLast.key) => keys = smcLast.keysBefore
    /\ (\A i \in DOMAIN smcLast.issued :
          smcLast.issued[i].data8 = CmdKeyInfo => ~SmcRead(smcLast.answers[i]).ok)
         => keys = smcLast.keysBefore

\* A read_val added the entry of its key to a cache that held another entry.
C25_Witness ==
  /\ smcLast.op = "read_val"
  /\ Cardinality(DOMAIN smcLast.keysBefore) = 1
  /\ Cardinality(DOMAIN keys) = 2
  /\ InfoObtained(FourCC(smcLast.key)) # {}

\* ==== Claims about longer lives of an engine (checked under SpecCarry) ========

\* C27: a get_sample call leaves the carried snapshot and the record of the
\* last get_samples snapshot as they were, touches no handle that was already
\* released (the carried one included), and has released the two raw samples
\* it made, each once; and a get_samples call that returns after a get_sample
\* call starts its first record, like any other, at the snapshot the engine
\* carried when the call began.
C27_SampleLeavesPrev ==
  /\ lastCall.op = "get_sample" =>
       /\ eng.prev = lastCall.carried
       /\ lastSnap = lastCall.snapBefore
       /\ lastCall.touched = {}
       /\ Cardinality(lastCall.raws) = 2
       /\ lastCall.raws \cap alive = {}
       /\ IsSome(eng.prev) => Unwrap(eng.prev).id \notin lastCall.raws
  /\ (/\ lastCall.op = "get_samples"
      /\ lastCall.status = "returned"
      /\ lastCall.after = "get_sample"
      /\ IsSome(lastCall.carried)) =>
       lastCall.intervals[1].left = Unwrap(lastCall.carried)

\* The third call, a get_samples that follows a get_sample, starts where the
\* first call, a get_samples, ended.
C27_Witness ==
  /\ lastCall.op = "get_samples"
  /\ lastCall.status = "returned"
  /\ lastCall.n = 3
  /\ lastCall.after = "get_sample"
  /\ IsSome(lastCall.snapBefore)
  /\ lastCall.intervals[1].left = Unwrap(lastCall.snapBefore)
  /\ Unwrap(lastCall.snapBefore).id \notin faults

\* The positions of the command-5 requests among those the last call sent.
ValRequests == { i \in DOMAIN smcLast.issued : smcLast.issued[i].data8 = CmdReadVal }

\* C28: a read_val(k) sends at most one command-5 request; it sends it either
\* first, when k's metadata was in the cache, or second, right after a
\* command-9 request for k that the kernel answered successfully, and the
\* request names k and carries that cached or answered metadata; a read_val
\* on a key of the wrong length sends nothing and returns the invalid-key
\* error, and one whose command-9 exchange fails sends nothing after it and
\* returns the error of that exchange.
C28_ValRequestCarriesInfo ==
  smcLast.op = "read_val" =>
    LET k      == FourCC(smcLast.key)
        before == smcLast.keysBefore
        issued == smcLast.issued
    IN  /\ Cardinality(ValRequests) <= 1
        /\ \A i \in ValRequests :
             /\ issued[i].key = k
             /\ IF k \in DOMAIN before
                  THEN i = 1 /\ issued[i].key_info = before[k]
                  ELSE /\ i = 2
                       /\ issued[1].data8 = CmdKeyInfo
                       /\ issued[1].key = k
                       /\ SmcRead(smcLast.answers[1]).ok
                       /\ issued[i].key_info = smcLast.answers[1].key_info
        /\ ~KeyLengthOk(smcLast.key) =>
             /\ issued = <<>>
             /\ smcLast.ret = Err([kind |-> "invalid_key", code |-> 0])
        /\ (/\ KeyLengthOk(smcLast.key)
            /\ k \notin DOMAIN before
            /\ ~SmcRead(smcLast.answers[1]).ok) =>
             /\ Len(issued) = 1
             /\ issued[1].data8 = CmdKeyInfo
             /\ smcLast.ret = SmcRead(smcLast.answers[1])

\* A read_val that had to ask for the metadata first and then sent a
\* command-5 request carrying what the kernel answered.
C28_Witness ==
  /\ smcLast.op = "read_val"
  /\ Len(smcLast.issued) = 2
  /\ smcLast.issued[2].data8 = CmdReadVal
  /\ smcLast.issued[2].key_info = smcLast.answers[1].key_info
  /\ smcLast.issued[2].key_info # DefaultKeyInfo

\* ==== More claims about read_all_keys (checked under SpecKeys) ================

\* The exchanges of the last read_all_keys that the kernel answered with a
\* failure.
FailedExchanges ==
  { i \in DOMAIN smcLast.issued : ~SmcRead(smcLast.answers[i]).ok }

\* C29: a read_all_keys that does not panic returns an error exactly when its
\* "#KEY" read or one of its key_by_index calls failed; the error is that of
\* the failed exchange, which is the last one the call made, and the keys
\* read before it are not returned.  Every other failed exchange belongs to
\* the read_val of one pass, and the enumeration went on after it.
C29_OnlyReadValRecovered ==
  (smcLast.op = "read_all_keys" /\ ~smcLast.panicked) =>
    LET last == Len(smcLast.issued)
    IN  /\ smcLast.count = None =>
             /\ last \in FailedExchanges
             /\ smcLast.ret = SmcRead(smcLast.answers[last])
        /\ \A i \in FailedExchanges :
             smcLast.issued[i].data8 = CmdByIndex =>
               /\ i = last
               /\ smcLast.ret = SmcRead(smcLast.answers[i])
        /\ ~smcLast.ret.ok =>
             /\ last \in FailedExchanges
             /\ smcLast.count = None \/ smcLast.issued[last].data8 = CmdByIndex
        /\ smcLast.ret.ok =>
             \A i \in FailedExchanges :
               IsSome(smcLast.count) /\ smcLast.issued[i].data8 \in {CmdKeyInfo, CmdReadVal}

\* The first pass read its key, the key_by_index of the second pass failed,
\* and the call returned that failure.
C29_Witness ==
  /\ smcLast.op = "read_all_keys"
  /\ ~smcLast.panicked
  /\ smcLast.count = Some(2)
  /\ Len(smcLast.visits) = 1
  /\ smcLast.visits[1].ok
  /\ smcLast.issued[Len(smcLast.issued)].data8 = CmdByIndex
  /\ ~smcLast.ret.ok
  /\ smcLast.ret.err.kind = "protocol"

\* C30 (checked under SpecCarry): while the engine lives, the snapshot it
\* carries, if any, is a raw sample that has not been released; and no raw
\* sample is ever released twice or handed to the framework after its
\* release, by a call or by the engine's drop.
C30_CarriedSnapshotAlive ==
  /\ (engState = "live" /\ IsSome(eng.prev)) => Unwrap(eng.prev).id \in alive
  /\ \A id \in faults : kindOf[id] # "raw"

\* The names of the entries IOServiceGetMatchingServices matched in the last
\* SMC::new call
MatchedNames ==
  { svcLast.answer.entries[k].name : k \in DOMAIN svcLast.answer.entries }

\* C31: SMC::new returns a client only after IOServiceOpen succeeded on an
\* entry named "AppleSMCKeysEndpoint": the call that returns a client has
\* opened exactly one connection, the client stores its id, the id names an
\* open connection until the client is dropped, and the drop closes exactly
\* the connections new opened; when no matched entry carries the name, new
\* returns an error.
C31_ClientOwnsItsOneConnection ==
  svcLast.op = "SMC::new" =>
    /\ svcLast.ret.ok =>
         /\ Len(svcLast.opened) = 1
         /\ svcLast.ret.val.conn = svcLast.opened[1]
         /\ ~svcLast.dropped => svcLast.ret.val.conn \in registry.alive
         /\ svcLast.dropped =>
              svcLast.closed = { svcLast.opened[k] : k \in DOMAIN svcLast.opened }
    /\ Some("AppleSMCKeysEndpoint") \notin MatchedNames => ~svcLast.ret.ok
====
